---- MODULE Spec2Model ----
(***************************************************************************)
(* Verification model of the Smart Airport Ride Pooling back end.          *)
(*                                                                         *)
(* Geometry.  Every location of the model lies on one meridian, so a       *)
(* Location is an integer: its distance in kilometres along the meridian   *)
(* from a reference point.  For two such points haversineDistance is       *)
(* exactly the absolute difference of the coordinates, and the bearing of  *)
(* a trip is 0 (northbound or empty) or 180 (southbound).  Floating-point   *)
(* rounding is not modelled.                                               *)
(*                                                                         *)
(* Store.  Every D1 statement is one atomic step; requests interleave at   *)
(* their awaits.  run() reports success = TRUE for every statement that    *)
(* executes (also when it changes no row) and throws otherwise.            *)
(***************************************************************************)
EXTENDS Integers, Sequences, FiniteSets, TLC

VARIABLES
    passengers,   \* table passengers: id -> row
    pools,        \* table pools: id -> row
    waypoints,    \* table waypoints: set of rows
    pool_locks,   \* table pool_locks: its set of rows
    now,          \* wall clock, seconds
    poolSeq,      \* number of pool ids generated so far (generatePoolId)
    failures,     \* number of statements that have thrown so far
    cancel,       \* cancelRideRequest calls: request id -> locals
    matcher,      \* matchPendingPassengers calls: cycle id -> locals
    updater,      \* record of the last updatePoolWithVersionCheck call
    route,        \* optimizeRoute call: input, greedy result, returned result
    pricing,      \* pricing call: input and returned value
    retry         \* retryWithBackoff call: locals and what fn has done

vars == <<passengers, pools, waypoints, pool_locks, now, poolSeq, failures,
          cancel, matcher, updater, route, pricing, retry>>

dbVars == <<passengers, pools, waypoints, pool_locks>>

(***************************************************************************)
(* Bounds                                                                  *)
(***************************************************************************)
MaxCoord == 2
MaxRoutePassengers == 2
MaxPassengers == 2
MaxCancels == 2
MaxMatchCycles == 1
MaxUpdates == 1
MaxVersion == 2
MaxFailures == 3
MaxWriterTries == 2
MaxMatchRounds == 2
MaxTime == 31
TickSeconds == 31

(***************************************************************************)
(* Generic helpers                                                         *)
(***************************************************************************)
Null == [null |-> TRUE]

\* passengers.pool_id IS NULL
NoPool == -1

Abs(x) == IF x < 0 THEN -x ELSE x

RECURSIVE SumSeq(_)
SumSeq(s) == IF Len(s) = 0 THEN 0 ELSE Head(s) + SumSeq(Tail(s))

RemoveAt(s, k) == [i \in 1..(Len(s) - 1) |-> IF i < k THEN s[i] ELSE s[i + 1]]

(***************************************************************************)
(* geometry                                                                *)
(***************************************************************************)
AVERAGE_SPEED_KMH == 30

haversineDistance(loc1, loc2) == Abs(loc2 - loc1)

estimateTravelTime(distanceKm) == (distanceKm * 60) \div AVERAGE_SPEED_KMH

(***************************************************************************)
(* route-optimizer                                                         *)
(* A RoutePoint is [passenger_id, type, loc]; RouteConstraints is          *)
(* [maxSeats, maxLuggage, passengerConstraints], the last a function from  *)
(* passenger ids to [maxDetourMinutes, directDistance, directTime,         *)
(* seatsRequired, luggageCount].                                           *)
(***************************************************************************)
MAX_ITERATIONS == 100

isValidNextWaypoint(waypoint, pickedUp, currentSeats, currentLuggage, constraints) ==
    /\ waypoint.type = "dropoff" => waypoint.passenger_id \in pickedUp
    /\ waypoint.type = "pickup" =>
          /\ waypoint.passenger_id \in DOMAIN constraints.passengerConstraints
          /\ LET constraint == constraints.passengerConstraints[waypoint.passenger_id]
             IN  /\ ~(currentSeats + constraint.seatsRequired > constraints.maxSeats)
                 /\ ~(currentLuggage + constraint.luggageCount > constraints.maxLuggage)

\* The loop over the route of calculateDetours, from position i on.
RECURSIVE detoursFrom(_, _, _, _, _, _)
detoursFrom(rt, i, currentTime, pickupTimes, detours, constraints) ==
    IF i > Len(rt) THEN detours
    ELSE
      LET waypoint == rt[i]
          pid == waypoint.passenger_id
          t == IF i > 1
               THEN currentTime
                    + estimateTravelTime(haversineDistance(rt[i - 1].loc, waypoint.loc))
               ELSE currentTime
      IN  IF waypoint.type = "pickup"
          THEN detoursFrom(rt, i + 1, t, (pid :> t) @@ pickupTimes, detours, constraints)
          ELSE
            LET pickupTime == IF pid \in DOMAIN pickupTimes THEN pickupTimes[pid] ELSE 0
                actualTime == t - pickupTime
            IN  IF pid \in DOMAIN constraints.passengerConstraints
                THEN detoursFrom(rt, i + 1, t, pickupTimes,
                        (pid :> (actualTime - constraints.passengerConstraints[pid].directTime))
                            @@ detours,
                        constraints)
                ELSE detoursFrom(rt, i + 1, t, pickupTimes, detours, constraints)

calculateDetours(rt, constraints) ==
    detoursFrom(rt, 1, 0, <<>>, <<>>, constraints)

\* The validation loop shared by greedy construction and 2-opt:
\* TRUE iff some detour exceeds its passenger's tolerance.
detourViolated(detours, constraints) ==
    \E pid \in DOMAIN detours :
        /\ pid \in DOMAIN constraints.passengerConstraints
        /\ detours[pid] > constraints.passengerConstraints[pid].maxDetourMinutes

\* The inner for-loop of greedyRouteConstruction over the unvisited set (a JS
\* Set iterates in insertion order): index of the nearest valid waypoint,
\* 0 when there is none.  best = 0 stands for bestDistance = Infinity.
RECURSIVE nearestValid(_, _, _, _, _, _, _, _)
nearestValid(unvisited, k, currentLocation, pickedUp, currentSeats, currentLuggage, constraints, best) ==
    IF k > Len(unvisited) THEN best
    ELSE
      LET waypoint == unvisited[k]
          distance == haversineDistance(currentLocation, waypoint.loc)
          better ==
            /\ isValidNextWaypoint(waypoint, pickedUp, currentSeats, currentLuggage,
                                   constraints)
            /\ \/ best = 0
               \/ distance < haversineDistance(currentLocation, unvisited[best].loc)
      IN  nearestValid(unvisited, k + 1, currentLocation, pickedUp, currentSeats,
                       currentLuggage, constraints, IF better THEN k ELSE best)

RECURSIVE greedyLoop(_, _, _, _, _, _, _, _, _)
greedyLoop(rt, unvisited, pickedUp, currentLocation, currentSeats, currentLuggage, totalDistance, totalTime, constraints) ==
    IF Len(unvisited) = 0
    THEN
      LET detours == calculateDetours(rt, constraints)
      IN  IF detourViolated(detours, constraints)
          THEN Null
          ELSE [waypoints |-> rt, total_distance |-> totalDistance,
                total_time |-> totalTime, detours |-> detours]
    ELSE
      LET b == nearestValid(unvisited, 1, currentLocation, pickedUp, currentSeats,
                            currentLuggage, constraints, 0)
      IN  IF b = 0 THEN Null
          ELSE
            LET bestWaypoint == unvisited[b]
                pid == bestWaypoint.passenger_id
                bestDistance == haversineDistance(currentLocation, bestWaypoint.loc)
                known == pid \in DOMAIN constraints.passengerConstraints
                seats == IF known THEN constraints.passengerConstraints[pid].seatsRequired
                         ELSE 0
                luggage == IF known THEN constraints.passengerConstraints[pid].luggageCount
                           ELSE 0
                sign == IF bestWaypoint.type = "pickup" THEN 1 ELSE -1
            IN  greedyLoop(Append(rt, bestWaypoint), RemoveAt(unvisited, b),
                           IF bestWaypoint.type = "pickup"
                           THEN pickedUp \cup {pid} ELSE pickedUp \ {pid},
                           bestWaypoint.loc,
                           currentSeats + sign * seats,
                           currentLuggage + sign * luggage,
                           totalDistance + bestDistance,
                           totalTime + estimateTravelTime(bestDistance),
                           constraints)

greedyRouteConstruction(wps, startLocation, constraints) ==
    greedyLoop(<<>>, wps, {}, startLocation, 0, 0, 0, 0, constraints)

\* newWaypoints of twoOptOptimization: the segment [i+1, j] (0-based) reversed.
reverseSegment(wps, i, j) ==
    [k \in 1..Len(wps) |->
        IF k >= i + 2 /\ k <= j + 1 THEN wps[(i + 2) + (j + 1) - k] ELSE wps[k]]

\* newDistance of twoOptOptimization: the legs between consecutive waypoints.
RECURSIVE legsFrom(_, _)
legsFrom(wps, k) ==
    IF k > Len(wps) THEN 0
    ELSE haversineDistance(wps[k - 1].loc, wps[k].loc) + legsFrom(wps, k + 1)

\* The adoption test of 2-opt without the verification of the detours.
twoOptAdopts_NoDetourCheck(bestRoute, newWaypoints, constraints) ==
    legsFrom(newWaypoints, 2) < bestRoute.total_distance

\* Whether 2-opt adopts the candidate newWaypoints in place of bestRoute.
twoOptAdopts(bestRoute, newWaypoints, constraints) ==
    /\ legsFrom(newWaypoints, 2) < bestRoute.total_distance
    /\ ~detourViolated(calculateDetours(newWaypoints, constraints), constraints)

\* One pass of the two nested for-loops, from the pair (i, j) on (0-based).
RECURSIVE twoOptPass(_, _, _, _, _)
twoOptPass(bestRoute, i, j, improved, constraints) ==
    LET n == Len(bestRoute.waypoints)
    IN  IF ~(i < n - 1) THEN [route |-> bestRoute, improved |-> improved]
        ELSE IF ~(j < n) THEN twoOptPass(bestRoute, i + 1, i + 3, improved, constraints)
        ELSE
          LET newWaypoints == reverseSegment(bestRoute.waypoints, i, j)
              newDistance == legsFrom(newWaypoints, 2)
          IN  IF twoOptAdopts(bestRoute, newWaypoints, constraints)
              THEN twoOptPass([waypoints |-> newWaypoints,
                               total_distance |-> newDistance,
                               total_time |-> estimateTravelTime(newDistance),
                               detours |-> calculateDetours(newWaypoints, constraints)],
                              i, j + 1, TRUE, constraints)
              ELSE twoOptPass(bestRoute, i, j + 1, improved, constraints)

RECURSIVE twoOptLoop(_, _, _)
twoOptLoop(bestRoute, iterations, constraints) ==
    IF ~(iterations < MAX_ITERATIONS) THEN bestRoute
    ELSE LET r == twoOptPass(bestRoute, 0, 2, FALSE, constraints)
         IN  IF r.improved THEN twoOptLoop(r.route, iterations + 1, constraints)
             ELSE r.route

twoOptOptimization(rt, constraints) == twoOptLoop(rt, 0, constraints)

\* The value of the counter 'iterations' when the while-loop of 2-opt is left.
RECURSIVE twoOptIterations(_, _, _)
twoOptIterations(bestRoute, iterations, constraints) ==
    IF ~(iterations < MAX_ITERATIONS) THEN iterations
    ELSE LET r == twoOptPass(bestRoute, 0, 2, FALSE, constraints)
         IN  IF r.improved THEN twoOptIterations(r.route, iterations + 1, constraints)
             ELSE iterations + 1

\* The waypoint list optimizeRoute builds: pickup then dropoff of each
\* passenger, in the order of the passenger list.
RECURSIVE buildWaypoints(_)
buildWaypoints(ps) ==
    IF Len(ps) = 0 THEN <<>>
    ELSE <<[passenger_id |-> Head(ps).id, type |-> "pickup", loc |-> Head(ps).pickup],
           [passenger_id |-> Head(ps).id, type |-> "dropoff", loc |-> Head(ps).dropoff]>>
         \o buildWaypoints(Tail(ps))

optimizeRoute(ps, startLocation, constraints) ==
    LET result == greedyRouteConstruction(buildWaypoints(ps), startLocation, constraints)
    IN  IF result = Null THEN Null ELSE twoOptOptimization(result, constraints)

(***************************************************************************)
(* geometry: bearings of trips along the meridian                          *)
(***************************************************************************)
\* atan2(0, x) is 180 degrees for x < 0 and 0 otherwise (a southbound trip,
\* and a northbound or empty one).
calculateBearing(loc1, loc2) == IF loc2 < loc1 THEN 180 ELSE 0

isSimilarDirection(loc1Start, loc1End, loc2Start, loc2End, thresholdDegrees) ==
    LET bearing1 == calculateBearing(loc1Start, loc1End)
        bearing2 == calculateBearing(loc2Start, loc2End)
        d == Abs(bearing1 - bearing2)
        diff == IF d > 180 THEN 360 - d ELSE d
    IN  diff <= thresholdDegrees

(***************************************************************************)
(* matcher                                                                 *)
(* A Passenger is the row [id, pickup, dropoff, luggage_count,             *)
(* seats_required, max_detour_minutes, status, pool_id, requested_at].     *)
(***************************************************************************)
DEFAULT_CONFIG ==
    [maxPoolSize |-> 4, maxSearchRadius |-> 5, minDirectionSimilarity |-> 45,
     timeoutMs |-> 250]

getVehicleCapacity(type) ==
    CASE type = "sedan" -> [maxSeats |-> 4, maxLuggage |-> 3]
      [] type = "suv"   -> [maxSeats |-> 6, maxLuggage |-> 5]
      [] type = "van"   -> [maxSeats |-> 8, maxLuggage |-> 8]

\* determineVehicleType of the matcher: by total seats and total luggage.
matcherDetermineVehicleType(seats, luggage) ==
    IF seats <= 4 /\ luggage <= 3 THEN "sedan"
    ELSE IF seats <= 6 /\ luggage <= 5 THEN "suv"
    ELSE IF seats <= 8 /\ luggage <= 8 THEN "van"
    ELSE "none"

RECURSIVE SumField(_, _)
SumField(ps, f) == IF Len(ps) = 0 THEN 0 ELSE Head(ps)[f] + SumField(Tail(ps), f)

\* The centroid of n pickups is their sum divided by n.  To keep it an
\* integer, tryFormPool's call of the route planner is evaluated in units of
\* 1/n km and 1/n minute: coordinates, distances, times and detour
\* tolerances are all multiplied by n = passengers.length, the start
\* location is the plain sum of the pickups.
passengerConstraint(p, n) ==
    LET directDistance == haversineDistance(p.pickup * n, p.dropoff * n)
    IN  [maxDetourMinutes |-> p.max_detour_minutes * n,
         directDistance |-> directDistance,
         directTime |-> estimateTravelTime(directDistance),
         seatsRequired |-> p.seats_required,
         luggageCount |-> p.luggage_count]

poolConstraints(ps, vehicleType) ==
    LET n == Len(ps)
        ids == {ps[k].id : k \in 1..n}
        byId(pid) == CHOOSE k \in 1..n : ps[k].id = pid /\ \A m \in (k + 1)..n : ps[m].id # pid
    IN  [maxSeats |-> getVehicleCapacity(vehicleType).maxSeats,
         maxLuggage |-> getVehicleCapacity(vehicleType).maxLuggage,
         passengerConstraints |-> [pid \in ids |-> passengerConstraint(ps[byId(pid)], n)]]

scaledPassengers(ps) ==
    [k \in 1..Len(ps) |-> [ps[k] EXCEPT !.pickup = @ * Len(ps), !.dropoff = @ * Len(ps)]]

calculateCentroid(ps) == SumField(ps, "pickup")

\* tryFormPool without its vehicle check: a vehicle that seats whatever the
\* group needs is assumed.
tryFormPool_AnyVehicle(ps) ==
    IF Len(ps) = 0 THEN Null
    ELSE
      LET rt == optimizeRoute(scaledPassengers(ps), calculateCentroid(ps),
                              [poolConstraints(ps, "van") EXCEPT
                                  !.maxSeats = SumField(ps, "seats_required"),
                                  !.maxLuggage = SumField(ps, "luggage_count")])
      IN  IF rt = Null THEN Null
          ELSE [passengers |-> [k \in 1..Len(ps) |-> ps[k].id],
                route |-> rt,
                scale |-> Len(ps),
                feasible |-> TRUE]

tryFormPool(ps) ==
    IF Len(ps) = 0 THEN Null
    ELSE
      LET totalSeats == SumField(ps, "seats_required")
          totalLuggage == SumField(ps, "luggage_count")
          vehicleType == matcherDetermineVehicleType(totalSeats, totalLuggage)
      IN  IF vehicleType = "none" THEN Null
          ELSE
            LET rt == optimizeRoute(scaledPassengers(ps), calculateCentroid(ps),
                                    poolConstraints(ps, vehicleType))
            IN  IF rt = Null THEN Null
                ELSE [passengers |-> [k \in 1..Len(ps) |-> ps[k].id],
                      route |-> rt,
                      scale |-> Len(ps),
                      feasible |-> TRUE]

isCompatible(existing, candidate, config) ==
    /\ \A k \in 1..Len(existing) :
          isSimilarDirection(existing[k].pickup, existing[k].dropoff,
                             candidate.pickup, candidate.dropoff,
                             config.minDirectionSimilarity)
    /\ ~(SumField(existing, "seats_required") + candidate.seats_required > 6)
    /\ ~(SumField(existing, "luggage_count") + candidate.luggage_count > 8)

\* The inner loop of buildSpatialClusters without its test of the assigned
\* set: every passenger within maxRadius of the seed's pickup is taken.
RECURSIVE absorb_IgnoringAssigned(_, _, _, _, _)
absorb_IgnoringAssigned(ps, k, seed, assigned, maxRadius) ==
    IF k > Len(ps) THEN <<>>
    ELSE IF haversineDistance(seed.pickup, ps[k].pickup) <= maxRadius
         THEN <<ps[k]>> \o absorb_IgnoringAssigned(ps, k + 1, seed, assigned, maxRadius)
         ELSE absorb_IgnoringAssigned(ps, k + 1, seed, assigned, maxRadius)

\* The inner loop of buildSpatialClusters: the passengers of ps, from index k
\* on, that are unassigned and within maxRadius of the seed's pickup.
RECURSIVE absorb(_, _, _, _, _)
absorb(ps, k, seed, assigned, maxRadius) ==
    IF k > Len(ps) THEN <<>>
    ELSE IF ps[k].id \notin assigned
            /\ haversineDistance(seed.pickup, ps[k].pickup) <= maxRadius
         THEN <<ps[k]>> \o absorb(ps, k + 1, seed, assigned, maxRadius)
         ELSE absorb(ps, k + 1, seed, assigned, maxRadius)

RECURSIVE clustersFrom(_, _, _, _)
clustersFrom(ps, k, assigned, maxRadius) ==
    IF k > Len(ps) THEN <<>>
    ELSE IF ps[k].id \in assigned THEN clustersFrom(ps, k + 1, assigned, maxRadius)
    ELSE
      LET cluster == <<ps[k]>> \o absorb(ps, 1, ps[k], assigned \cup {ps[k].id}, maxRadius)
      IN  <<cluster>>
          \o clustersFrom(ps, k + 1,
                          assigned \cup {cluster[m].id : m \in 1..Len(cluster)}, maxRadius)

buildSpatialClusters(ps, maxRadius) == clustersFrom(ps, 1, {}, maxRadius)

\* The for-loop of formPoolsFromCluster that walks remaining from its end:
\* [candidates, remaining] after visiting index i and everything below it.
RECURSIVE growPool(_, _, _, _)
growPool(poolCandidates, remaining, i, config) ==
    IF i < 1 \/ Len(poolCandidates) >= config.maxPoolSize
    THEN [candidates |-> poolCandidates, remaining |-> remaining]
    ELSE IF isCompatible(poolCandidates, remaining[i], config)
         THEN growPool(Append(poolCandidates, remaining[i]), RemoveAt(remaining, i),
                       i - 1, config)
         ELSE growPool(poolCandidates, remaining, i - 1, config)

RECURSIVE greedyPools(_, _)
greedyPools(remaining, config) ==
    IF Len(remaining) = 0 THEN <<>>
    ELSE
      LET g == growPool(<<Head(remaining)>>, Tail(remaining), Len(remaining) - 1, config)
          result == tryFormPool(g.candidates)
      IN  (IF result = Null THEN <<>> ELSE <<result>>) \o greedyPools(g.remaining, config)

formPoolsFromCluster(cluster, config) ==
    IF Len(cluster) <= config.maxPoolSize
    THEN LET result == tryFormPool(cluster)
         IN  IF result = Null THEN <<>> ELSE <<result>>
    ELSE greedyPools(cluster, config)

\* Array.prototype.sort with the requested_at comparator (a stable sort).
RECURSIVE insertSorted(_, _)
insertSorted(sorted, p) ==
    IF Len(sorted) = 0 THEN <<p>>
    ELSE IF sorted[Len(sorted)].requested_at <= p.requested_at THEN Append(sorted, p)
    ELSE Append(insertSorted(SubSeq(sorted, 1, Len(sorted) - 1), p), sorted[Len(sorted)])

RECURSIVE sortByRequestedAt(_)
sortByRequestedAt(ps) ==
    IF Len(ps) = 0 THEN <<>>
    ELSE insertSorted(sortByRequestedAt(SubSeq(ps, 1, Len(ps) - 1)), ps[Len(ps)])

RECURSIVE poolsOfClusters(_, _)
poolsOfClusters(clusters, config) ==
    IF Len(clusters) = 0 THEN <<>>
    ELSE formPoolsFromCluster(Head(clusters), config)
         \o poolsOfClusters(Tail(clusters), config)

\* matchPassengersToPool; the timeout guard between clusters is not taken
\* (the whole computation runs within its budget).  availablePools is not
\* read by the function.
matchPassengersToPool(ps, config) ==
    LET pendingPassengers == SelectSeq(ps, LAMBDA p : p.status = "pending")
    IN  IF Len(pendingPassengers) = 0 THEN <<>>
        ELSE poolsOfClusters(
                buildSpatialClusters(sortByRequestedAt(pendingPassengers),
                                     config.maxSearchRadius),
                config)

(***************************************************************************)
(* concurrency: the pool_locks lease and the version-checked update        *)
(* The pool_locks table is the set of its rows [pool_id, locked_by,         *)
(* expires_at, lock_version]; pool_id is its primary key.                  *)
(***************************************************************************)
DEFAULT_LOCK_OPTIONS == [ttlSeconds |-> 30, maxRetries |-> 3, retryDelayMs |-> 50]

\* The outcome of handing a statement to the store is "ok" (it executes) or
\* "throw".
\* result.success of D1's run() for a statement that executed.
runSuccess(outcome) == outcome = "ok"

\* The rows of the pool.
locksOfPool(locks, poolId) == {l \in locks : l.pool_id = poolId}

\* The same INSERT into a table without the primary key on pool_id.
insertLock_NoPrimaryKey(locks, poolId, lockerId, expiresAt) ==
    locks \cup {[pool_id |-> poolId, locked_by |-> lockerId, expires_at |-> expiresAt,
                 lock_version |-> 1]}

\* INSERT INTO pool_locks ... ON CONFLICT(pool_id) DO NOTHING
insertLockOrNothing(locks, poolId, lockerId, expiresAt) ==
    IF locksOfPool(locks, poolId) # {} THEN locks
    ELSE locks \cup {[pool_id |-> poolId, locked_by |-> lockerId,
                      expires_at |-> expiresAt, lock_version |-> 1]}

\* UPDATE pool_locks SET locked_by, expires_at, lock_version = lock_version + 1
\* WHERE pool_id = ? AND expires_at < datetime('now')
claimExpiredLock(locks, poolId, lockerId, expiresAt, t) ==
    {IF l.pool_id = poolId /\ l.expires_at < t
     THEN [l EXCEPT !.locked_by = lockerId, !.expires_at = expiresAt,
                    !.lock_version = @ + 1]
     ELSE l : l \in locks}

\* acquirePoolLock at time t: [locks |-> the table afterwards, lockId |-> the
\* value returned].  A statement that throws lands in the catch block.
acquirePoolLock(locks, poolId, lockerId, t, outcome) ==
    LET lockId == [pool |-> poolId, at |-> t]
        expiresAt == t + DEFAULT_LOCK_OPTIONS.ttlSeconds
        inserted == insertLockOrNothing(locks, poolId, lockerId, expiresAt)
    IN  IF outcome = "throw" THEN [locks |-> locks, lockId |-> Null]
        ELSE IF runSuccess(outcome) THEN [locks |-> inserted, lockId |-> lockId]
        ELSE IF \E existing \in locksOfPool(inserted, poolId) : existing.expires_at < t
             THEN [locks |-> claimExpiredLock(inserted, poolId, lockerId, expiresAt, t),
                   lockId |-> lockId]
             ELSE [locks |-> inserted, lockId |-> Null]

\* DELETE FROM pool_locks WHERE pool_id = ?, whoever holds the row.
deleteLockOfPool(locks, poolId, lockerId) ==
    {l \in locks : ~(l.pool_id = poolId)}

\* DELETE FROM pool_locks WHERE pool_id = ? AND locked_by = ?
deleteLockOfHolder(locks, poolId, lockerId) ==
    {l \in locks : ~(l.pool_id = poolId /\ l.locked_by = lockerId)}

\* releasePoolLock: [locks |-> the table afterwards, released |-> the value
\* returned, changes |-> the number of rows the DELETE removed].  A DELETE
\* that throws lands in the catch block, which returns false.
releasePoolLock(locks, poolId, lockerId, outcome) ==
    LET deleted == deleteLockOfHolder(locks, poolId, lockerId)
    IN  IF outcome = "throw" THEN [locks |-> locks, released |-> FALSE, changes |-> 0]
        ELSE [locks |-> deleted, released |-> runSuccess(outcome),
              changes |-> Cardinality(locks) - Cardinality(deleted)]

\* cleanupExpiredLocks at time t: DELETE FROM pool_locks WHERE expires_at <
\* datetime('now'); a DELETE that throws is caught and nothing is removed.
cleanupExpiredLocks(locks, t, outcome) ==
    IF outcome = "throw" THEN locks
    ELSE {l \in locks : ~(l.expires_at < t)}

\* result.meta.changes of UPDATE pools ... WHERE id = ?, without the version test.
matchingRows_AnyVersion(tbl, poolId, expectedVersion) ==
    IF poolId \in DOMAIN tbl THEN 1 ELSE 0

\* result.meta.changes of UPDATE pools ... WHERE id = ? AND version = ?
matchingRows(tbl, poolId, expectedVersion) ==
    IF poolId \in DOMAIN tbl /\ tbl[poolId].version = expectedVersion THEN 1 ELSE 0

\* SET version = version, the increment left out.
versionAfterUpdate_Same(version) == version

\* SET version = version + 1
versionAfterUpdate(version) == version + 1

\* updatePoolWithVersionCheck: [pools |-> the table afterwards, result |-> the
\* value returned].  updates is a function from column names to values.
updatePoolWithVersionCheck(tbl, poolId, updates, expectedVersion) ==
    LET updateFields == DOMAIN updates \ {"id", "version"}
        changes == matchingRows(tbl, poolId, expectedVersion)
    IN  IF updateFields = {} THEN [pools |-> tbl, result |-> [success |-> FALSE]]
        ELSE IF changes > 0
        THEN [pools |->
                [tbl EXCEPT ![poolId] =
                    [c \in DOMAIN @ |->
                        IF c \in updateFields THEN updates[c]
                        ELSE IF c = "version" THEN versionAfterUpdate(@.version)
                        ELSE @[c]]],
              result |-> [success |-> TRUE, newVersion |-> expectedVersion + 1]]
        ELSE [pools |-> tbl, result |-> [success |-> FALSE]]

(***************************************************************************)
(* ride-pooling service                                                    *)
(* A pools row is [vehicle_type, max_seats, max_luggage, current_seats,    *)
(* current_luggage, status, total_distance, version]; total_distance is    *)
(* the pair <<distance in 1/n km, n>>.  A waypoints row is [id, pool_id,   *)
(* passenger_id, sequence_order, waypoint_type, loc].  Prices, surge zones *)
(* and the serialized route column are not part of the model.              *)
(***************************************************************************)
\* determineVehicleType of the service: by the number of passengers.
determineVehicleType(passengerCount) ==
    IF passengerCount <= 2 THEN "sedan"
    ELSE IF passengerCount <= 4 THEN "suv"
    ELSE "van"

\* request.field || fallback
orDefault(v, fallback) == IF v = 0 THEN fallback ELSE v

SeedPassengerId == 0
SeedPoolId == 0

CreatedIds == 1..MaxPassengers
UnknownPassengerId == MaxPassengers + 1
CancelIds == 1..MaxCancels
MatchIds == 1..MaxMatchCycles

\* The request bodies handed to createRideRequest: a single traveller without
\* luggage who leaves the optional fields out (0 stands for a field left
\* out of the body), and a party of two with two bags.  Every ride is from
\* the airport (km 0) to km 2.
Requests ==
    { [pickup |-> 0, dropoff |-> 2, luggage_count |-> 0, seats_required |-> 0,
       max_detour_minutes |-> 0],
      [pickup |-> 0, dropoff |-> 2, luggage_count |-> 2, seats_required |-> 2,
       max_detour_minutes |-> 15] }

\* The update sets handed to updatePoolWithVersionCheck.
UpdateChoices ==
    { [version |-> 7],
      [status |-> "matched"],
      [id |-> 9, current_luggage |-> 1] }

\* SELECT * FROM passengers WHERE status = 'pending' ORDER BY requested_at ASC:
\* ids are handed out in creation order, so the order is by id.
RECURSIVE pendingFrom(_, _)
pendingFrom(tbl, pid) ==
    IF pid > MaxPassengers THEN <<>>
    ELSE IF pid \in DOMAIN tbl /\ tbl[pid].status = "pending"
         THEN <<tbl[pid]>> \o pendingFrom(tbl, pid + 1)
         ELSE pendingFrom(tbl, pid + 1)

pendingPassengers(tbl) == pendingFrom(tbl, 0)

\* The luggage total matchPendingPassengers binds to current_luggage: the
\* luggage_count of each proposal passenger as read at the start of the cycle.
RECURSIVE luggageOf(_, _)
luggageOf(ids, snapshot) ==
    IF Len(ids) = 0 THEN 0
    ELSE LET found == SelectSeq(snapshot, LAMBDA p : p.id = Head(ids))
         IN  (IF Len(found) > 0 THEN found[1].luggage_count ELSE 0)
             + luggageOf(Tail(ids), snapshot)

\* The pools row matchPendingPassengers inserts for a proposal.
newPoolRow(result, snapshot) ==
    LET vehicleType == determineVehicleType(Len(result.passengers))
        capacity == getVehicleCapacity(vehicleType)
    IN  [vehicle_type |-> vehicleType,
         max_seats |-> capacity.maxSeats,
         max_luggage |-> capacity.maxLuggage,
         current_seats |-> Len(result.passengers),
         current_luggage |-> luggageOf(result.passengers, snapshot),
         status |-> "forming",
         total_distance |-> <<result.route.total_distance, result.scale>>,
         version |-> 0]

\* The waypoints row for position i (0-based) of a proposal's route.
newWaypointRow(result, i) ==
    LET wp == result.route.waypoints[i + 1]
    IN  [id |-> <<result.pool_id, i>>, pool_id |-> result.pool_id,
         passenger_id |-> wp.passenger_id, sequence_order |-> i,
         waypoint_type |-> wp.type, loc |-> wp.loc \div result.scale]

\* DELETE FROM pools WHERE id = ?, with waypoints.pool_id ON DELETE CASCADE.
deletePool(tbl, poolId) == [q \in DOMAIN tbl \ {poolId} |-> tbl[q]]

cascadeWaypoints(wps, poolId) == {w \in wps : w.pool_id # poolId}

IdleCancel ==
    [pc |-> "idle", passengerId |-> UnknownPassengerId, passenger |-> Null,
     attempt |-> 0, delays |-> <<>>, lockId |-> Null, runs |-> 0, error |-> Null,
     released |-> Null, result |-> Null]

IdleMatcher ==
    [pc |-> "idle", snapshot |-> <<>>, results |-> <<>>, idx |-> 1, k |-> 1,
     matched |-> 0, pools_created |-> 0, failed |-> {}, round |-> 1]

\* The store as the seed data leaves it: one completed ride in a completed pool.
Init ==
    /\ passengers =
          (SeedPassengerId :>
              [id |-> SeedPassengerId, pickup |-> 0, dropoff |-> 2, luggage_count |-> 1,
               seats_required |-> 1, max_detour_minutes |-> 15, status |-> "completed",
               pool_id |-> SeedPoolId, requested_at |-> 0])
    /\ pools =
          (SeedPoolId :>
              [vehicle_type |-> "sedan", max_seats |-> 4, max_luggage |-> 3,
               current_seats |-> 3, current_luggage |-> 3, status |-> "completed",
               total_distance |-> <<57, 2>>, version |-> 0])
    /\ waypoints = {}
    /\ pool_locks = {}
    /\ now = 0
    /\ poolSeq = 0
    /\ failures = 0
    /\ cancel = [r \in CancelIds |-> IdleCancel]
    /\ matcher = [m \in MatchIds |-> IdleMatcher]
    /\ updater = [calls |-> 0]
    /\ route = Null
    /\ pricing = Null
    /\ retry = Null

Tick ==
    /\ now + TickSeconds <= MaxTime
    /\ now' = now + TickSeconds
    /\ UNCHANGED <<dbVars, poolSeq, failures, cancel, matcher, updater, route, pricing, retry>>

\* The passengers row createRideRequest inserts at time t.
newPassengerRow(pid, request, t) ==
    [id |-> pid, pickup |-> request.pickup, dropoff |-> request.dropoff,
     luggage_count |-> orDefault(request.luggage_count, 0),
     seats_required |-> orDefault(request.seats_required, 1),
     max_detour_minutes |-> orDefault(request.max_detour_minutes, 15),
     status |-> "pending", pool_id |-> NoPool, requested_at |-> t]

\* createRideRequest: the INSERT of the pending passenger.
CreateRideRequest ==
    \E request \in Requests :
      LET pid == Cardinality(DOMAIN passengers)
      IN  /\ pid \in CreatedIds
          /\ passengers' = (pid :> newPassengerRow(pid, request, now)) @@ passengers
          /\ UNCHANGED <<pools, waypoints, pool_locks, now, poolSeq, failures, cancel,
                         matcher, updater, route, pricing, retry>>

\* Where cancelRideRequest goes with the row it loaded, were completed rides
\* let through.
cancelDecision_CompletedLetThrough(passenger) ==
    IF passenger = Null THEN "done"
    ELSE IF passenger.status = "cancelled" THEN "done"
    ELSE IF passenger.pool_id = NoPool \/ passenger.status = "pending" THEN "simple"
    ELSE "acquire"

\* Where cancelRideRequest goes with the row it loaded: it returns failure
\* ("done"), cancels without a lease ("simple") or enters withPoolLock.
cancelDecision(passenger) ==
    IF passenger = Null THEN "done"
    ELSE IF passenger.status = "cancelled" \/ passenger.status = "completed" THEN "done"
    ELSE IF passenger.pool_id = NoPool \/ passenger.status = "pending" THEN "simple"
    ELSE "acquire"

\* cancelRideRequest up to its first decision: the passenger is loaded; an
\* unknown, cancelled or completed passenger ends the call with failure.
CancelLoad(r) ==
    /\ cancel[r].pc = "idle"
    /\ \E pid \in 0..UnknownPassengerId :
         LET passenger == IF pid \in DOMAIN passengers THEN passengers[pid] ELSE Null
             next == cancelDecision(passenger)
         IN  cancel' = [cancel EXCEPT ![r] =
                          [@ EXCEPT !.pc = next, !.passengerId = pid,
                                    !.passenger = passenger,
                                    !.result = IF next = "done" THEN [success |-> FALSE]
                                               ELSE Null]]
    /\ UNCHANGED <<dbVars, now, poolSeq, failures, matcher, updater, route, pricing, retry>>

\* The simple cancellation of a passenger that was read without a pool.
CancelSimple(r) ==
    /\ cancel[r].pc = "simple"
    /\ passengers' = [passengers EXCEPT ![cancel[r].passengerId].status = "cancelled"]
    /\ cancel' = [cancel EXCEPT ![r].pc = "done", ![r].result = [success |-> TRUE]]
    /\ UNCHANGED <<pools, waypoints, pool_locks, now, poolSeq, failures, matcher,
                   updater, route, pricing, retry>>

\* The sleep after a failed attempt, were it the same after every attempt.
retryDelay_Constant(attempt) == DEFAULT_LOCK_OPTIONS.retryDelayMs

\* The sleep after the failed attempt with the given loop index (0-based), in ms.
retryDelay(attempt) == DEFAULT_LOCK_OPTIONS.retryDelayMs * (attempt + 1)

\* Where withPoolLock goes after one acquisition attempt (lines 495-510): into
\* the block when the attempt returned a lock id, to sleep when it did not and
\* attempts remain, and out with failure after the last attempt.  The variant
\* runs the block after the last failed attempt as well.
afterAttempt_BlockWithoutLease(lockId, last) ==
    IF lockId # Null \/ last THEN "remove_passenger" ELSE "sleep"

afterAttempt(lockId, last) ==
    IF lockId # Null THEN "remove_passenger"
    ELSE IF last THEN "done" ELSE "sleep"

\* One acquisition attempt of withPoolLock, the holder being the request id
\* r, with the given outcome of its INSERT.  After a failed attempt that was
\* not the last one the call sleeps; after the last one it returns failure.
attemptAcquire(r, outcome) ==
    LET a == acquirePoolLock(pool_locks, cancel[r].passenger.pool_id, r, now, outcome)
        last == ~(cancel[r].attempt < DEFAULT_LOCK_OPTIONS.maxRetries - 1)
    IN  /\ pool_locks' = a.locks
        /\ cancel' = [cancel EXCEPT ![r] =
             [@ EXCEPT !.lockId = a.lockId,
                       !.pc = afterAttempt(a.lockId, last),
                       !.attempt = IF a.lockId = Null /\ last THEN @ + 1 ELSE @,
                       !.delays = IF a.lockId = Null /\ ~last
                                  THEN Append(@, retryDelay(cancel[r].attempt))
                                  ELSE @,
                       !.runs = IF a.lockId # Null THEN @ + 1 ELSE @,
                       !.result = IF a.lockId = Null /\ last
                                  THEN [success |-> FALSE] ELSE Null]]

\* An acquisition attempt whose statement executes.
CancelAcquire(r) ==
    /\ cancel[r].pc = "acquire"
    /\ attemptAcquire(r, "ok")
    /\ UNCHANGED <<passengers, pools, waypoints, now, poolSeq, failures, matcher,
                   updater, route, pricing, retry>>

\* An acquisition attempt whose statement throws.
CancelAcquireThrows(r) ==
    /\ cancel[r].pc = "acquire"
    /\ failures < MaxFailures
    /\ failures' = failures + 1
    /\ attemptAcquire(r, "throw")
    /\ UNCHANGED <<passengers, pools, waypoints, now, poolSeq, matcher, updater, route,
                   pricing, retry>>

\* The sleep between two attempts is over.
CancelRetry(r) ==
    /\ cancel[r].pc = "sleep"
    /\ cancel' = [cancel EXCEPT ![r].pc = "acquire", ![r].attempt = @ + 1]
    /\ UNCHANGED <<dbVars, now, poolSeq, failures, matcher, updater, route, pricing, retry>>

\* Protected block, statement 1: the passenger leaves the pool.
CancelRemovePassenger(r) ==
    /\ cancel[r].pc = "remove_passenger"
    /\ passengers' = [passengers EXCEPT ![cancel[r].passengerId] =
                        [@ EXCEPT !.status = "cancelled", !.pool_id = NoPool]]
    /\ cancel' = [cancel EXCEPT ![r].pc = "update_pool"]
    /\ UNCHANGED <<pools, waypoints, pool_locks, now, poolSeq, failures, matcher,
                   updater, route, pricing, retry>>

\* The same UPDATE without its version = version + 1.
releaseCapacity_NoVersionBump(tbl, poolId, seats, luggage) ==
    IF poolId \in DOMAIN tbl
    THEN [tbl EXCEPT ![poolId] =
            [@ EXCEPT !.current_seats = @ - seats,
                      !.current_luggage = @ - luggage]]
    ELSE tbl

\* UPDATE pools SET current_seats = current_seats - ?, current_luggage =
\* current_luggage - ?, version = version + 1 WHERE id = ?
releaseCapacity(tbl, poolId, seats, luggage) ==
    IF poolId \in DOMAIN tbl
    THEN [tbl EXCEPT ![poolId] =
            [@ EXCEPT !.current_seats = @ - seats,
                      !.current_luggage = @ - luggage,
                      !.version = @ + 1]]
    ELSE tbl

\* Protected block, statement 2: the pool's load is reduced by what was read
\* of the passenger at the start of the call.
CancelUpdatePool(r) ==
    /\ cancel[r].pc = "update_pool"
    /\ pools' = releaseCapacity(pools, cancel[r].passenger.pool_id,
                                cancel[r].passenger.seats_required,
                                cancel[r].passenger.luggage_count)
    /\ cancel' = [cancel EXCEPT ![r].pc = "delete_waypoints"]
    /\ UNCHANGED <<passengers, waypoints, pool_locks, now, poolSeq, failures, matcher,
                   updater, route, pricing, retry>>

\* Protected block, statement 3.
CancelDeleteWaypoints(r) ==
    /\ cancel[r].pc = "delete_waypoints"
    /\ waypoints' = {w \in waypoints : w.passenger_id # cancel[r].passengerId}
    /\ cancel' = [cancel EXCEPT ![r].pc = "check_pool"]
    /\ UNCHANGED <<passengers, pools, pool_locks, now, poolSeq, failures, matcher,
                   updater, route, pricing, retry>>

\* Whether the pool read back by cancelRideRequest is to be deleted.
poolIsEmpty(tbl, poolId) == poolId \in DOMAIN tbl /\ tbl[poolId].current_seats <= 0

\* Protected block, statement 4: the pool's current_seats are read back.
CancelCheckPool(r) ==
    /\ cancel[r].pc = "check_pool"
    /\ cancel' = [cancel EXCEPT ![r].pc =
                    IF poolIsEmpty(pools, cancel[r].passenger.pool_id)
                    THEN "delete_pool" ELSE "release"]
    /\ UNCHANGED <<dbVars, now, poolSeq, failures, matcher, updater, route, pricing, retry>>

\* Protected block, statement 5: the empty pool is deleted.
CancelDeletePool(r) ==
    /\ cancel[r].pc = "delete_pool"
    /\ pools' = deletePool(pools, cancel[r].passenger.pool_id)
    /\ waypoints' = cascadeWaypoints(waypoints, cancel[r].passenger.pool_id)
    /\ cancel' = [cancel EXCEPT ![r].pc = "release"]
    /\ UNCHANGED <<passengers, pool_locks, now, poolSeq, failures, matcher, updater, route,
                   pricing, retry>>

\* The statements of the protected block.
BlockStatements ==
    {"remove_passenger", "update_pool", "delete_waypoints", "check_pool", "delete_pool"}

\* A statement of the protected block throws: the block is left, the catch
\* block of withPoolLock rethrows the error and the finally block runs.
CancelStatementThrows(r) ==
    /\ cancel[r].pc \in BlockStatements
    /\ failures < MaxFailures
    /\ failures' = failures + 1
    /\ cancel' = [cancel EXCEPT ![r].pc = "release",
                                ![r].error = [thrown_by |-> cancel[r].pc]]
    /\ UNCHANGED <<dbVars, now, poolSeq, matcher, updater, route, pricing, retry>>

\* What withPoolLock hands to cancelRideRequest's caller once the finally
\* block is through, were a caught error replaced by a failure result.
blockOutcome_ErrorSwallowed(error) ==
    IF error # Null THEN [success |-> FALSE] ELSE [success |-> TRUE]

\* What withPoolLock hands to cancelRideRequest's caller once the finally
\* block is through: the error the block threw, or the block's result.
blockOutcome(error) ==
    IF error # Null THEN [thrown |-> error] ELSE [success |-> TRUE]

\* The finally block of withPoolLock with the given outcome of the DELETE;
\* then the block's result is returned or its error thrown on.  What
\* releasePoolLock returned, how many rows it removed and the pool's rows as
\* the call left them are kept.
finishWithPoolLock(r, outcome) ==
    LET poolId == cancel[r].passenger.pool_id
        rel == releasePoolLock(pool_locks, poolId, r, outcome)
    IN  /\ pool_locks' = rel.locks
        /\ cancel' = [cancel EXCEPT ![r].pc = "done",
                                    ![r].released =
                                        [returned |-> rel.released, changes |-> rel.changes,
                                         rows |-> locksOfPool(rel.locks, poolId)],
                                    ![r].result = blockOutcome(cancel[r].error)]

\* The finally block, its DELETE executing.
CancelRelease(r) ==
    /\ cancel[r].pc = "release"
    /\ finishWithPoolLock(r, "ok")
    /\ UNCHANGED <<passengers, pools, waypoints, now, poolSeq, failures, matcher,
                   updater, route, pricing, retry>>

\* The finally block, its DELETE throwing.
CancelReleaseThrows(r) ==
    /\ cancel[r].pc = "release"
    /\ failures < MaxFailures
    /\ failures' = failures + 1
    /\ finishWithPoolLock(r, "throw")
    /\ UNCHANGED <<passengers, pools, waypoints, now, poolSeq, matcher, updater, route,
                   pricing, retry>>

\* The periodic cleanupExpiredLocks call.
CleanupExpiredLocks ==
    /\ \E outcome \in {"ok", "throw"} :
          pool_locks' = cleanupExpiredLocks(pool_locks, now, outcome)
    /\ UNCHANGED <<passengers, pools, waypoints, now, poolSeq, failures, cancel, matcher,
                   updater, route, pricing, retry>>

\* Proposals of one matching cycle, each with the pool id generated for it.
withPoolIds(results, base) ==
    [k \in 1..Len(results) |->
        [pool_id |-> base + k, passengers |-> results[k].passengers,
         route |-> results[k].route, scale |-> results[k].scale,
         feasible |-> results[k].feasible]]

\* matchPendingPassengers up to the end of the matching algorithm: the
\* pending passengers are read and the proposals computed.
MatchRead(m) ==
    /\ matcher[m].pc = "idle"
    /\ LET snapshot == pendingPassengers(passengers)
           results == withPoolIds(matchPassengersToPool(snapshot, DEFAULT_CONFIG), poolSeq)
       IN  /\ poolSeq' = poolSeq + Len(results)
           /\ matcher' = [matcher EXCEPT ![m] =
                  [@ EXCEPT !.snapshot = snapshot, !.results = results,
                            !.pc = IF Len(results) = 0 THEN "done" ELSE "insert_pool"]]
    /\ UNCHANGED <<dbVars, now, failures, cancel, updater, route, pricing, retry>>

\* Where a cycle continues after the proposal at idx is finished or given up.
nextProposal(mm) ==
    [mm EXCEPT !.idx = @ + 1, !.k = 1,
               !.pc = IF mm.idx + 1 > Len(mm.results) THEN "done" ELSE "insert_pool"]

MatchInsertPool(m) ==
    /\ matcher[m].pc = "insert_pool"
    /\ LET result == matcher[m].results[matcher[m].idx]
       IN  pools' = (result.pool_id :> newPoolRow(result, matcher[m].snapshot)) @@ pools
    /\ matcher' = [matcher EXCEPT ![m].pc = "update_passenger", ![m].k = 1,
                                  ![m].pools_created = @ + 1]
    /\ UNCHANGED <<passengers, waypoints, pool_locks, now, poolSeq, failures, cancel,
                   updater, route, pricing, retry>>

\* UPDATE passengers SET status = 'matched', pool_id = ? WHERE id = ?
MatchUpdatePassenger(m) ==
    /\ matcher[m].pc = "update_passenger"
    /\ LET result == matcher[m].results[matcher[m].idx]
           pid == result.passengers[matcher[m].k]
       IN  /\ passengers' = [passengers EXCEPT ![pid] =
                               [@ EXCEPT !.status = "matched", !.pool_id = result.pool_id]]
           /\ matcher' = [matcher EXCEPT ![m] =
                  [@ EXCEPT !.matched = @ + 1,
                            !.k = IF matcher[m].k < Len(result.passengers) THEN @ + 1 ELSE 1,
                            !.pc = IF matcher[m].k < Len(result.passengers)
                                   THEN "update_passenger" ELSE "insert_waypoint"]]
    /\ UNCHANGED <<pools, waypoints, pool_locks, now, poolSeq, failures, cancel,
                   updater, route, pricing, retry>>

\* INSERT INTO waypoints: the pool it names must exist (foreign key); if it
\* does not, the statement throws and the proposal is given up.
MatchInsertWaypoint(m) ==
    /\ matcher[m].pc = "insert_waypoint"
    /\ LET result == matcher[m].results[matcher[m].idx]
           i == matcher[m].k - 1
       IN  IF result.pool_id \in DOMAIN pools
           THEN /\ waypoints' = waypoints \cup {newWaypointRow(result, i)}
                /\ matcher' = [matcher EXCEPT ![m] =
                       IF i + 1 < Len(result.route.waypoints)
                       THEN [@ EXCEPT !.k = @ + 1]
                       ELSE nextProposal(@)]
           ELSE /\ waypoints' = waypoints
                /\ matcher' = [matcher EXCEPT ![m] = nextProposal(@)]
    /\ UNCHANGED <<passengers, pools, pool_locks, now, poolSeq, failures, cancel,
                   updater, route, pricing, retry>>

\* Where a cycle continues after a statement of the proposal at idx has
\* thrown, were the error to end the cycle.
afterFailure_CycleEnds(mm) ==
    [mm EXCEPT !.failed = @ \cup {mm.idx}, !.pc = "done"]

\* Where a cycle continues after a statement of the proposal at idx has
\* thrown: the catch block logs the error, and the loop goes on.
afterFailure(mm) ==
    nextProposal([mm EXCEPT !.failed = @ \cup {mm.idx}])

\* A statement of a proposal's commit throws: the INSERT of the pool, an
\* UPDATE of a passenger or an INSERT of a waypoint.
MatchStatementThrows(m) ==
    /\ matcher[m].pc \in {"insert_pool", "update_passenger", "insert_waypoint"}
    /\ failures < MaxFailures
    /\ failures' = failures + 1
    /\ matcher' = [matcher EXCEPT ![m] = afterFailure(@)]
    /\ UNCHANGED <<dbVars, now, poolSeq, cancel, updater, route, pricing, retry>>

\* Some caller hands a pool id, an update set and an expected version to
\* updatePoolWithVersionCheck while the service runs.
UpdatePool ==
    /\ updater.calls < MaxUpdates
    /\ \E poolId \in 0..poolSeq, updates \in UpdateChoices, expectedVersion \in 0..MaxVersion :
         pools' = updatePoolWithVersionCheck(pools, poolId, updates, expectedVersion).pools
    /\ updater' = [calls |-> updater.calls + 1]
    /\ UNCHANGED <<passengers, waypoints, pool_locks, now, poolSeq, failures, cancel,
                   matcher, route, pricing, retry>>

Next ==
    \/ CreateRideRequest
    \/ UpdatePool
    \/ \E r \in CancelIds :
          \/ CancelLoad(r)
          \/ CancelSimple(r)
          \/ CancelAcquire(r)
          \/ CancelRemovePassenger(r)
          \/ CancelUpdatePool(r)
          \/ CancelDeleteWaypoints(r)
          \/ CancelCheckPool(r)
          \/ CancelDeletePool(r)
          \/ CancelRelease(r)
    \/ \E m \in MatchIds :
          \/ MatchRead(m)
          \/ MatchInsertPool(m)
          \/ MatchUpdatePassenger(m)
          \/ MatchInsertWaypoint(m)

\* The service over a store that executes every statement, all within one
\* second of wall-clock time.
Spec == Init /\ [][Next]_vars

(***************************************************************************)
(* Cancellations of the passengers of one committed pool, with time        *)
(* passing and with lease statements that may throw                        *)
(***************************************************************************)
\* The matching cycle that has committed its only proposal.
finishedCycle(snapshot, results) ==
    [pc |-> "done", snapshot |-> snapshot, results |-> results,
     idx |-> Len(results) + 1, k |-> 1,
     matched |-> Len(results[1].passengers), pools_created |-> 1, failed |-> {},
     round |-> 1]

\* The state in which the rides created at time 0 have all been committed to
\* one pool by the first matching cycle.
InitCancel ==
    \E requests \in [CreatedIds -> Requests] :
    \E snapshot \in {[pid \in CreatedIds |-> newPassengerRow(pid, requests[pid], 0)]} :
    \E results \in {withPoolIds(matchPassengersToPool(snapshot, DEFAULT_CONFIG), 0)} :
      LET seed == [id |-> SeedPassengerId, pickup |-> 0, dropoff |-> 2,
                   luggage_count |-> 1, seats_required |-> 1,
                   max_detour_minutes |-> 15, status |-> "completed",
                   pool_id |-> SeedPoolId, requested_at |-> 0]
      IN  /\ Len(results) = 1
          /\ Len(results[1].passengers) = MaxPassengers
          /\ passengers =
                [pid \in {SeedPassengerId} \cup CreatedIds |->
                    IF pid = SeedPassengerId THEN seed
                    ELSE [snapshot[pid] EXCEPT !.status = "matched",
                                               !.pool_id = results[1].pool_id]]
          /\ pools =
                (results[1].pool_id :> newPoolRow(results[1], snapshot))
                @@ (SeedPoolId :>
                      [vehicle_type |-> "sedan", max_seats |-> 4, max_luggage |-> 3,
                       current_seats |-> 3, current_luggage |-> 3, status |-> "completed",
                       total_distance |-> <<57, 2>>, version |-> 0])
          /\ waypoints =
                {newWaypointRow(results[1], i) :
                    i \in 0..(Len(results[1].route.waypoints) - 1)}
          /\ pool_locks = {}
          /\ now = 0
          /\ poolSeq = Len(results)
          /\ failures = 0
          /\ cancel = [r \in CancelIds |-> IdleCancel]
          /\ matcher = [m \in MatchIds |->
                          IF m = 1 THEN finishedCycle(snapshot, results) ELSE IdleMatcher]
          /\ updater = [calls |-> 0]
          /\ route = Null
          /\ pricing = Null
          /\ retry = Null

NextCancel ==
    \/ Tick
    \/ CleanupExpiredLocks
    \/ \E r \in CancelIds :
          \/ CancelLoad(r)
          \/ CancelAcquire(r)
          \/ CancelAcquireThrows(r)
          \/ CancelRetry(r)
          \/ CancelRemovePassenger(r)
          \/ CancelUpdatePool(r)
          \/ CancelDeleteWaypoints(r)
          \/ CancelCheckPool(r)
          \/ CancelDeletePool(r)
          \/ CancelStatementThrows(r)
          \/ CancelRelease(r)
          \/ CancelReleaseThrows(r)

SpecCancel == InitCancel /\ [][NextCancel]_vars

(***************************************************************************)
(* One matching cycle over pending rides from up to three pickup areas,    *)
(* with statements of the commits that may throw                           *)
(***************************************************************************)
\* Pickup areas farther apart than maxSearchRadius.
AreaKm == 6

\* The rides pending when the cycle starts: ride pid is picked up in one of
\* the areas pid - 1 and pid (the first ride in area 1), at km area * AreaKm,
\* and goes 2 km north or 2 km south.
MatchPickups ==
    {pickups \in [CreatedIds -> 1..MaxPassengers] :
        /\ pickups[1] = 1
        /\ \A pid \in CreatedIds : pid > 1 => pickups[pid] \in {pid - 1, pid}}

\* The party sizes of the pending rides: one traveller, two travellers with
\* two bags, a party one seat larger than a van, and a traveller with one bag
\* more than a van holds.
MatchSizes ==
    { [seats_required |-> 1, luggage_count |-> 0],
      [seats_required |-> 2, luggage_count |-> 2],
      [seats_required |-> getVehicleCapacity("van").maxSeats + 1, luggage_count |-> 0],
      [seats_required |-> 1, luggage_count |-> getVehicleCapacity("van").maxLuggage + 1] }

\* The trip lengths of the pending rides, in km: northbound and southbound.
MatchTrips == {2, -2}

InitMatch ==
    \E pickups \in MatchPickups :
    \E sizes \in [CreatedIds -> MatchSizes] :
    \E trips \in [CreatedIds -> MatchTrips] :
      /\ passengers =
            [pid \in CreatedIds |->
                newPassengerRow(pid,
                    [pickup |-> pickups[pid] * AreaKm,
                     dropoff |-> pickups[pid] * AreaKm + trips[pid],
                     luggage_count |-> sizes[pid].luggage_count,
                     seats_required |-> sizes[pid].seats_required,
                     max_detour_minutes |-> 15], 0)]
      /\ pools = <<>>
      /\ waypoints = {}
      /\ pool_locks = {}
      /\ now = 0
      /\ poolSeq = 0
      /\ failures = 0
      /\ cancel = [r \in CancelIds |-> IdleCancel]
      /\ matcher = [m \in MatchIds |-> IdleMatcher]
      /\ updater = [calls |-> 0]
      /\ route = Null
      /\ pricing = Null
      /\ retry = Null

\* The next periodic run of matchPendingPassengers, after the one before
\* has returned.
MatchAgain(m) ==
    /\ matcher[m].pc = "done"
    /\ matcher[m].round < MaxMatchRounds
    /\ matcher' = [matcher EXCEPT ![m] = [IdleMatcher EXCEPT !.round = matcher[m].round + 1]]
    /\ UNCHANGED <<dbVars, now, poolSeq, failures, cancel, updater, route, pricing, retry>>

\* The one periodic job that runs the cycles, one after another.
PeriodicMatcher == 1

NextMatch ==
    \/ MatchRead(PeriodicMatcher)
    \/ MatchAgain(PeriodicMatcher)
    \/ MatchInsertPool(PeriodicMatcher)
    \/ MatchUpdatePassenger(PeriodicMatcher)
    \/ MatchInsertWaypoint(PeriodicMatcher)
    \/ MatchStatementThrows(PeriodicMatcher)

SpecMatch == InitMatch /\ [][NextMatch]_vars

(***************************************************************************)
(* Two matching cycles triggered at the same time (POST /api/rides/match)  *)
(***************************************************************************)
ConcurrentCycles == {1, 2}

\* The pending rides: single travellers and parties of two with two bags.
OverlapSizes ==
    { [seats_required |-> 1, luggage_count |-> 0],
      [seats_required |-> 2, luggage_count |-> 2] }

InitOverlap ==
    \E pickups \in MatchPickups :
    \E sizes \in [CreatedIds -> OverlapSizes] :
      /\ passengers =
            [pid \in CreatedIds |->
                newPassengerRow(pid,
                    [pickup |-> pickups[pid] * AreaKm,
                     dropoff |-> pickups[pid] * AreaKm + 2,
                     luggage_count |-> sizes[pid].luggage_count,
                     seats_required |-> sizes[pid].seats_required,
                     max_detour_minutes |-> 15], 0)]
      /\ pools = <<>>
      /\ waypoints = {}
      /\ pool_locks = {}
      /\ now = 0
      /\ poolSeq = 0
      /\ failures = 0
      /\ cancel = [r \in CancelIds |-> IdleCancel]
      /\ matcher = [m \in ConcurrentCycles |-> IdleMatcher]
      /\ updater = [calls |-> 0]
      /\ route = Null
      /\ pricing = Null
      /\ retry = Null

NextOverlap ==
    \E m \in ConcurrentCycles :
        \/ MatchRead(m)
        \/ MatchInsertPool(m)
        \/ MatchUpdatePassenger(m)
        \/ MatchInsertWaypoint(m)

SpecOverlap == InitOverlap /\ [][NextOverlap]_vars

(***************************************************************************)
(* updatePoolWithVersionCheck applied to one call                          *)
(***************************************************************************)
\* Every table but pools is empty and no request is in progress.
IdleStore ==
    /\ passengers = <<>>
    /\ waypoints = {}
    /\ pool_locks = {}
    /\ now = 0
    /\ poolSeq = 0
    /\ failures = 0
    /\ cancel = <<>>
    /\ matcher = <<>>

UpdatePoolId == 1
MissingPoolId == 2

\* Rows of a pool that two sedan passengers were committed to.
UpdateRows ==
    [vehicle_type : {"sedan"}, max_seats : {4}, max_luggage : {3}, current_seats : {2},
     current_luggage : {0, 2}, status : {"forming", "matched"},
     total_distance : {<<4, 1>>}, version : 0..MaxVersion]

InitUpdate ==
    /\ IdleStore
    /\ route = Null
    /\ pricing = Null
    /\ retry = Null
    /\ \E row \in UpdateRows : pools = (UpdatePoolId :> row)
    /\ \E poolId \in {UpdatePoolId, MissingPoolId}, updates \in UpdateChoices,
          expectedVersion \in 0..MaxVersion :
          updater = [phase |-> "input", poolId |-> poolId, updates |-> updates,
                     expectedVersion |-> expectedVersion, before |-> Null,
                     result |-> Null]

\* The call: the table before it and the value returned are kept.
UpdateCall ==
    /\ updater.phase = "input"
    /\ LET u == updatePoolWithVersionCheck(pools, updater.poolId, updater.updates,
                                           updater.expectedVersion)
       IN  /\ pools' = u.pools
           /\ updater' = [updater EXCEPT !.phase = "done", !.before = pools,
                                         !.result = u.result]
    /\ UNCHANGED <<passengers, waypoints, pool_locks, now, poolSeq, failures, cancel,
                   matcher, route, pricing, retry>>

NextUpdate == UpdateCall

SpecUpdate == InitUpdate /\ [][NextUpdate]_vars

(***************************************************************************)
(* Two writers that update one pool through updatePoolWithVersionCheck,    *)
(* each reading the version first and reading it again after a conflict    *)
(***************************************************************************)
Writers == {"A", "B"}

\* The update sets of the two writers.
WriterUpdates ==
    { [version |-> 7],
      [status |-> "matched"],
      [status |-> "active", current_luggage |-> 1],
      [id |-> 9, current_luggage |-> 3] }

InitWriters ==
    /\ IdleStore
    /\ route = Null
    /\ pricing = Null
    /\ retry = Null
    /\ \E row \in UpdateRows : pools = (UpdatePoolId :> row)
    /\ \E choice \in [Writers -> WriterUpdates] :
          updater = [w \in Writers |->
                        [pc |-> "read", updates |-> choice[w], seen |-> <<>>,
                         results |-> <<>>]]

\* The writer reads the pool's version.
WriterRead(w) ==
    /\ updater[w].pc = "read"
    /\ updater' = [updater EXCEPT ![w].pc = "write",
                                  ![w].seen = Append(@, pools[UpdatePoolId].version)]
    /\ UNCHANGED <<dbVars, now, poolSeq, failures, cancel, matcher, route, pricing, retry>>

\* The writer calls updatePoolWithVersionCheck with the version it read last;
\* on success=false it goes back to reading, MaxWriterTries calls at most.
WriterWrite(w) ==
    /\ updater[w].pc = "write"
    /\ LET u == updatePoolWithVersionCheck(pools, UpdatePoolId, updater[w].updates,
                                           updater[w].seen[Len(updater[w].seen)])
       IN  /\ pools' = u.pools
           /\ updater' = [updater EXCEPT
                  ![w].results = Append(@, u.result),
                  ![w].pc = IF u.result.success THEN "done"
                            ELSE IF Len(updater[w].results) + 1 < MaxWriterTries
                                 THEN "read" ELSE "gave_up"]
    /\ UNCHANGED <<passengers, waypoints, pool_locks, now, poolSeq, failures, cancel,
                   matcher, route, pricing, retry>>

NextWriters == \E w \in Writers : WriterRead(w) \/ WriterWrite(w)

SpecWriters == InitWriters /\ [][NextWriters]_vars

(***************************************************************************)
(* The route planner applied to the inputs tryFormPool hands it            *)
(***************************************************************************)
Coords == 0..MaxCoord

DetourChoices == {2, 15}

passengerRow(pid, in, status, pool_id, requested_at) ==
    [id |-> pid, pickup |-> in.pickup, dropoff |-> in.dropoff,
     luggage_count |-> in.luggage_count, seats_required |-> in.seats_required,
     max_detour_minutes |-> in.max_detour_minutes,
     status |-> status, pool_id |-> pool_id, requested_at |-> requested_at]

RouteRequests ==
    [pickup : Coords, dropoff : Coords, luggage_count : {0},
     seats_required : {1}, max_detour_minutes : DetourChoices]

RouteInputs ==
    UNION {[1..n -> RouteRequests] : n \in 1..MaxRoutePassengers}

routePassengers(in) ==
    [k \in 1..Len(in) |-> passengerRow(k, in[k], "pending", NoPool, 0)]

routeVehicle(ps) ==
    matcherDetermineVehicleType(SumField(ps, "seats_required"),
                                SumField(ps, "luggage_count"))

InitRoute ==
    /\ IdleStore
    /\ pools = <<>>
    /\ updater = Null
    /\ pricing = Null
    /\ retry = Null
    /\ \E in \in RouteInputs :
          route = [phase |-> "input", passengers |-> routePassengers(in),
                   constraints |-> poolConstraints(routePassengers(in),
                                                   routeVehicle(routePassengers(in))),
                   greedy |-> Null, result |-> Null]

\* optimizeRoute, first half: waypoints are built and the greedy route is
\* constructed; a null result is returned at once.
RouteGreedy ==
    /\ route.phase = "input"
    /\ LET result == greedyRouteConstruction(
                        buildWaypoints(scaledPassengers(route.passengers)),
                        calculateCentroid(route.passengers), route.constraints)
       IN  route' = [route EXCEPT !.greedy = result,
                                  !.phase = IF result = Null THEN "done" ELSE "greedy"]
    /\ UNCHANGED <<dbVars, now, poolSeq, failures, cancel, matcher, updater, pricing, retry>>

\* optimizeRoute, second half: 2-opt on the greedy route; its result is returned.
RouteTwoOpt ==
    /\ route.phase = "greedy"
    /\ route' = [route EXCEPT !.result = twoOptOptimization(route.greedy, route.constraints),
                              !.phase = "done"]
    /\ UNCHANGED <<dbVars, now, poolSeq, failures, cancel, matcher, updater, pricing, retry>>

NextRoute == RouteGreedy \/ RouteTwoOpt

SpecRoute == InitRoute /\ [][NextRoute]_vars

(***************************************************************************)
(* The route planner called with a capacity of its caller's choosing       *)
(***************************************************************************)
MaxSeatsPassed == 2

InitCapacity ==
    /\ IdleStore
    /\ pools = <<>>
    /\ updater = Null
    /\ pricing = Null
    /\ retry = Null
    /\ \E in \in RouteInputs, maxSeats \in 1..MaxSeatsPassed :
          route = [phase |-> "input", passengers |-> routePassengers(in),
                   constraints |->
                      [poolConstraints(routePassengers(in), routeVehicle(routePassengers(in)))
                          EXCEPT !.maxSeats = maxSeats],
                   greedy |-> Null, result |-> Null]

SpecCapacity == InitCapacity /\ [][NextRoute]_vars

(***************************************************************************)
(* matchPassengersToPool applied to one call, cluster by cluster.  The     *)
(* clock (Date.now(), in milliseconds) advances while the call computes.   *)
(***************************************************************************)
MaxPlanPassengers == 4
SmallPoolSize == 2
FarPickup == 7
PlanTickMs == 150
MaxPlanTime == 300
PlanDetourMinutes == 15

PlanPickups == {0, 1, FarPickup}
PlanTrips == {-1, 1}
PlanPoolSizes == SmallPoolSize..DEFAULT_CONFIG.maxPoolSize

PlanRequests ==
    {[pickup |-> pickup, dropoff |-> pickup + trip, luggage_count |-> 0,
      seats_required |-> 1, max_detour_minutes |-> PlanDetourMinutes] :
        pickup \in PlanPickups, trip \in PlanTrips}

\* The rows handed to the matcher: passenger k of in, requested in the order
\* of the ids or in the reverse order, the last one matched already or not.
planPassengers(in, ascending, lastMatched) ==
    [k \in 1..Len(in) |->
        passengerRow(k, in[k],
                     IF lastMatched /\ k = Len(in) THEN "matched" ELSE "pending",
                     NoPool,
                     IF ascending THEN k ELSE Len(in) + 1 - k)]

\* A call with its arguments.  What buildSpatialClusters and
\* formPoolsFromCluster compute is a function of the arguments alone: the
\* clusters of the sorted pending passengers and the pools formed from each
\* cluster are tabulated with the call, and the steps of the loop read them.
plannedCall(ps, config) ==
    LET pending == SelectSeq(ps, LAMBDA p : p.status = "pending")
        clusters == IF Len(pending) = 0 THEN <<>>
                    ELSE buildSpatialClusters(sortByRequestedAt(pending),
                                              config.maxSearchRadius)
    IN  [pc |-> "input", passengers |-> ps, config |-> config,
         clustered |-> clusters,
         formed |-> [c \in 1..Len(clusters) |-> formPoolsFromCluster(clusters[c], config)],
         startTime |-> 0, clusters |-> <<>>, results |-> <<>>]

\* The arguments of the calls of matchPassengersToPool that are considered.
PlanArguments ==
    {[passengers |-> planPassengers(in, ascending, lastMatched),
      config |-> [DEFAULT_CONFIG EXCEPT !.maxPoolSize = maxPoolSize]] :
        in \in [1..MaxPlanPassengers -> PlanRequests], ascending \in BOOLEAN,
        lastMatched \in BOOLEAN, maxPoolSize \in PlanPoolSizes}

PlanStore ==
    /\ passengers = <<>>
    /\ waypoints = {}
    /\ pool_locks = {}
    /\ now = 0
    /\ poolSeq = 0
    /\ failures = 0
    /\ cancel = <<>>
    /\ pools = <<>>
    /\ updater = Null
    /\ route = Null
    /\ pricing = Null
    /\ retry = Null

InitPlan ==
    /\ PlanStore
    /\ \E a \in PlanArguments : matcher = plannedCall(a.passengers, a.config)

\* Before the call.
InitPlanIdle == PlanStore /\ matcher = [pc |-> "idle"]

\* matchPassengersToPool is called.
PlanCall ==
    /\ matcher.pc = "idle"
    /\ \E a \in PlanArguments : matcher' = plannedCall(a.passengers, a.config)
    /\ UNCHANGED <<dbVars, now, poolSeq, failures, cancel, updater, route, pricing, retry>>

\* A time budget that is never found exceeded.
timedOut_Never(startTime, t, config) == FALSE

\* The timeout protection at the head of the loop over the clusters, read at
\* time t: Date.now() - startTime > config.timeoutMs.
timedOut(startTime, t, config) == t - startTime > config.timeoutMs

\* matchPassengersToPool up to its loop: the pending passengers are filtered,
\* sorted by request time and clustered; with no pending passenger the empty
\* result is returned at once.
PlanStart ==
    /\ matcher.pc = "input"
    /\ LET pending == SelectSeq(matcher.passengers, LAMBDA p : p.status = "pending")
       IN  matcher' =
             IF Len(pending) = 0
             THEN [matcher EXCEPT !.pc = "done", !.startTime = now]
             ELSE [matcher EXCEPT
                     !.pc = "clusters", !.startTime = now,
                     !.clusters = matcher.clustered]
    /\ UNCHANGED <<dbVars, now, poolSeq, failures, cancel, updater, route, pricing, retry>>

\* One iteration of the loop over the clusters within the time budget.
PlanCluster ==
    /\ matcher.pc = "clusters"
    /\ Len(matcher.clusters) > 0
    /\ ~timedOut(matcher.startTime, now, matcher.config)
    /\ matcher' = [matcher EXCEPT
                     !.results = @ \o matcher.formed[Len(matcher.clustered)
                                                        - Len(matcher.clusters) + 1],
                     !.clusters = Tail(@)]
    /\ UNCHANGED <<dbVars, now, poolSeq, failures, cancel, updater, route, pricing, retry>>

\* The break of the loop: the budget is exceeded when the next cluster is due.
PlanTimeout ==
    /\ matcher.pc = "clusters"
    /\ Len(matcher.clusters) > 0
    /\ timedOut(matcher.startTime, now, matcher.config)
    /\ matcher' = [matcher EXCEPT !.pc = "done"]
    /\ UNCHANGED <<dbVars, now, poolSeq, failures, cancel, updater, route, pricing, retry>>

\* The loop has gone through every cluster: the results are returned.
PlanReturn ==
    /\ matcher.pc = "clusters"
    /\ Len(matcher.clusters) = 0
    /\ matcher' = [matcher EXCEPT !.pc = "done"]
    /\ UNCHANGED <<dbVars, now, poolSeq, failures, cancel, updater, route, pricing, retry>>

\* Time passes while the call is computing.
PlanTick ==
    /\ matcher.pc = "clusters"
    /\ now + PlanTickMs <= MaxPlanTime
    /\ now' = now + PlanTickMs
    /\ UNCHANGED <<dbVars, poolSeq, failures, cancel, matcher, updater, route, pricing, retry>>

PlanStep == PlanStart \/ PlanCluster \/ PlanTimeout \/ PlanReturn

NextPlan == PlanStep \/ PlanTick

SpecPlan == InitPlan /\ [][NextPlan]_vars

\* The call is one synchronous run of the JavaScript thread: its next step is
\* always taken; nothing obliges the clock to advance.
SpecPlanFair == InitPlanIdle /\ [][PlanCall \/ NextPlan]_vars /\ WF_vars(PlanStep)

(***************************************************************************)
(* Pricing (algorithms/pricing).  A number is a pair <<n, d>> with d > 0   *)
(* standing for n / d, so that rates, ratios and products are exact; a     *)
(* value the code rounds with Math.round(x * 100) / 100 is the integer     *)
(* number of hundredths.                                                   *)
(***************************************************************************)
RECURSIVE gcd(_, _)
gcd(a, b) == IF b = 0 THEN a ELSE gcd(b, a % b)

\* The same number in lowest terms.
qReduce(n, d) == LET g == gcd(Abs(n), d) IN <<n \div g, d \div g>>

qInt(n) == <<n, 1>>
qHundredths(n) == qReduce(n, 100)
qAdd(a, b) ==
    LET g == gcd(a[2], b[2])
    IN  qReduce(a[1] * (b[2] \div g) + b[1] * (a[2] \div g), (a[2] \div g) * b[2])
qSub(a, b) == qAdd(a, <<-b[1], b[2]>>)
qMul(a, b) ==
    LET g1 == gcd(Abs(a[1]), b[2])
        g2 == gcd(Abs(b[1]), a[2])
    IN  <<(a[1] \div g1) * (b[1] \div g2), (a[2] \div g2) * (b[2] \div g1)>>
qLess(a, b) ==
    LET g == gcd(a[2], b[2]) IN a[1] * (b[2] \div g) < b[1] * (a[2] \div g)
qLessEq(a, b) == ~qLess(b, a)
qMax(a, b) == IF qLess(a, b) THEN b ELSE a
qMin(a, b) == IF qLess(b, a) THEN b ELSE a

\* The hundredths rounded up instead: Math.ceil(x * 100).
roundHundredths_Up(x) == -((-100 * x[1]) \div x[2])

\* Math.round(x * 100), the hundredths of Math.round(x * 100) / 100:
\* the nearest integer, a half rounded up.
roundHundredths(x) == (200 * x[1] + x[2]) \div (2 * x[2])


PRICING_CONFIG ==
    [BASE_RATE_PER_KM |-> [sedan |-> qHundredths(250), suv |-> qHundredths(350),
                           van |-> qHundredths(450)],
     TIME_RATE_PER_MIN |-> [sedan |-> qHundredths(40), suv |-> qHundredths(55),
                            van |-> qHundredths(70)],
     MINIMUM_FARE |-> [sedan |-> qInt(8), suv |-> qInt(12), van |-> qInt(15)],
     SURGE |-> [MIN |-> qInt(1), MAX |-> <<35, 10>>,
                BASE_DEMAND_THRESHOLD |-> <<15, 10>>,
                PEAK_HOUR_MULTIPLIER |-> <<13, 10>>,
                WEATHER_MULTIPLIER |-> [clear |-> qInt(1), rain |-> <<12, 10>>,
                                        snow |-> <<15, 10>>]],
     POOL_DISCOUNT |-> [PER_PASSENGER |-> qHundredths(15),
                        MIN_DISCOUNT |-> qHundredths(50),
                        DETOUR_PENALTY |-> qHundredths(2)]]

calculateBasePrice(distance, time, vehicleType) ==
    LET distanceCharge == qMul(qInt(distance), PRICING_CONFIG.BASE_RATE_PER_KM[vehicleType])
        timeCharge == qMul(qInt(time), PRICING_CONFIG.TIME_RATE_PER_MIN[vehicleType])
    IN  qMax(qAdd(distanceCharge, timeCharge), PRICING_CONFIG.MINIMUM_FARE[vehicleType])

isPeakHour(hour, dayOfWeek) ==
    IF dayOfWeek = 0 \/ dayOfWeek = 6 THEN FALSE
    ELSE IF hour >= 7 /\ hour < 10 THEN TRUE
    ELSE IF hour >= 17 /\ hour < 20 THEN TRUE
    ELSE FALSE

\* active_requests / Math.max(available_drivers, 1)
demandSupplyRatio(activeRequests, availableDrivers) ==
    <<activeRequests, IF availableDrivers > 1 THEN availableDrivers ELSE 1>>

\* calculateSurgeMultiplier; an absent surgeZone is Null, an absent
\* weatherCondition is "absent".
calculateSurgeMultiplier(factors) ==
    LET zone == factors.surgeZone
        ratio == demandSupplyRatio(zone.active_requests, zone.available_drivers)
        excessDemand == qSub(ratio, PRICING_CONFIG.SURGE.BASE_DEMAND_THRESHOLD)
        demand == IF qLess(PRICING_CONFIG.SURGE.BASE_DEMAND_THRESHOLD, ratio)
                  THEN qAdd(qInt(1), qMin(qMul(excessDemand, <<5, 10>>), <<15, 10>>))
                  ELSE qInt(1)
        s1 == IF zone # Null THEN qMax(demand, zone.current_surge) ELSE qInt(1)
        s2 == IF isPeakHour(factors.timeOfDay, factors.dayOfWeek)
              THEN qMul(s1, PRICING_CONFIG.SURGE.PEAK_HOUR_MULTIPLIER) ELSE s1
        s3 == IF factors.weatherCondition # "absent"
              THEN qMul(s2, PRICING_CONFIG.SURGE.WEATHER_MULTIPLIER[factors.weatherCondition])
              ELSE s2
    IN  qMax(qMin(s3, PRICING_CONFIG.SURGE.MAX), PRICING_CONFIG.SURGE.MIN)

\* calculatePoolDiscount; an absent poolSize or detourMinutes is 0, which the
\* code treats as it treats undefined.
calculatePoolDiscount(poolSize, detourMinutes) ==
    IF poolSize <= 1 THEN qInt(1)
    ELSE LET baseDiscount == qMul(PRICING_CONFIG.POOL_DISCOUNT.PER_PASSENGER,
                                  qInt(poolSize - 1))
             detourPenalty == IF detourMinutes > 0
                              THEN qMul(PRICING_CONFIG.POOL_DISCOUNT.DETOUR_PENALTY,
                                        qInt(detourMinutes))
                              ELSE qInt(0)
             netDiscount == qSub(baseDiscount, detourPenalty)
             discountMultiplier == qSub(qInt(1), qMax(netDiscount, qInt(0)))
         IN  qMax(discountMultiplier, PRICING_CONFIG.POOL_DISCOUNT.MIN_DISCOUNT)

\* calculateDynamicPrice: every field of the result in hundredths.
calculateDynamicPrice(factors) ==
    LET basePrice == calculateBasePrice(factors.distance, factors.estimatedTime,
                                        factors.vehicleType)
        surgeMultiplier == calculateSurgeMultiplier(factors)
        poolDiscount == calculatePoolDiscount(factors.poolSize, factors.detourMinutes)
        priceAfterSurge == qMul(basePrice, surgeMultiplier)
        finalPrice == qMul(priceAfterSurge, poolDiscount)
    IN  [basePrice |-> roundHundredths(basePrice),
         surgeMultiplier |-> roundHundredths(surgeMultiplier),
         poolDiscount |-> roundHundredths(poolDiscount),
         finalPrice |-> roundHundredths(finalPrice),
         surgeAmount |-> roundHundredths(qSub(priceAfterSurge, basePrice)),
         poolSavings |-> roundHundredths(qSub(priceAfterSurge, finalPrice))]

\* updateSurgeZone: newSurge in hundredths, and the demand level.
rawSurge(ratio) ==
    IF qLess(ratio, <<15, 10>>) THEN qInt(1)
    ELSE IF qLess(ratio, qInt(3))
         THEN qAdd(qInt(1), qMul(qSub(ratio, <<15, 10>>), <<4, 10>>))
         ELSE qAdd(<<16, 10>>, qMul(qSub(ratio, qInt(3)), <<3, 10>>))

demandLevelOf(ratio) ==
    IF qLess(ratio, <<5, 10>>) THEN "low"
    ELSE IF qLess(ratio, <<15, 10>>) THEN "normal"
    ELSE IF qLess(ratio, qInt(3)) THEN "high"
    ELSE "very_high"

ALPHA == <<3, 10>>

updateSurgeZone(activeRequests, availableDrivers, currentSurge) ==
    LET ratio == demandSupplyRatio(activeRequests, availableDrivers)
        smoothed == qAdd(qMul(ALPHA, rawSurge(ratio)),
                         qMul(qSub(qInt(1), ALPHA), currentSurge))
        capped == qMax(qMin(smoothed, PRICING_CONFIG.SURGE.MAX), PRICING_CONFIG.SURGE.MIN)
    IN  [newSurge |-> roundHundredths(capped), demandLevel |-> demandLevelOf(ratio)]

(***************************************************************************)
(* calculateDynamicPrice applied to a range of rides                       *)
(***************************************************************************)
PriceDistances == {0, 3, 10}
PriceTimes == {0, 7}
PriceHours == {8, 12}
PriceDays == {0, 2}
PriceWeather == {"absent", "clear", "rain", "snow"}
\* No zone, a calm zone, zones whose demand exceeds supply, a zone with no
\* driver and a stored surge above the cap.
PriceZones ==
    {Null,
     [active_requests |-> 1, available_drivers |-> 2, current_surge |-> qInt(1)],
     [active_requests |-> 7, available_drivers |-> 4, current_surge |-> qInt(1)],
     [active_requests |-> 5, available_drivers |-> 3, current_surge |-> qHundredths(120)],
     [active_requests |-> 9, available_drivers |-> 0, current_surge |-> qInt(4)]}
MaxPricedPool == 5
PriceDetours == {0, 5, 20}

PriceInputs ==
    [distance : PriceDistances, estimatedTime : PriceTimes,
     vehicleType : {"sedan", "suv", "van"}, timeOfDay : PriceHours,
     dayOfWeek : PriceDays, weatherCondition : PriceWeather, surgeZone : PriceZones,
     poolSize : 0..MaxPricedPool, detourMinutes : PriceDetours]

InitPrice ==
    /\ IdleStore
    /\ pools = <<>>
    /\ updater = Null
    /\ route = Null
    /\ retry = Null
    /\ \E factors \in PriceInputs : pricing = [factors |-> factors, result |-> Null]

CalculateDynamicPrice ==
    /\ pricing.result = Null
    /\ pricing' = [pricing EXCEPT !.result = calculateDynamicPrice(pricing.factors)]
    /\ UNCHANGED <<dbVars, now, poolSeq, failures, cancel, matcher, updater, route, retry>>

NextPrice == CalculateDynamicPrice

SpecPrice == InitPrice /\ [][NextPrice]_vars

(***************************************************************************)
(* updateSurgeZone called again and again for one zone, each call with the *)
(* surge the previous call returned                                        *)
(***************************************************************************)
MaxRequests == 12
MaxDrivers == 4
MaxRefreshes == 3

\* Surges a zone may hold before the first refresh: the schema's default,
\* values inside the range, the cap, and values no refresh returns (below the
\* minimum, above the cap, with more than two decimals).
SurgeStarts ==
    {qInt(1), qHundredths(106), qHundredths(250), PRICING_CONFIG.SURGE.MAX,
     qHundredths(50), qInt(4), <<10901, 10000>>}

InitSurge ==
    /\ IdleStore
    /\ pools = <<>>
    /\ updater = Null
    /\ route = Null
    /\ retry = Null
    /\ \E a \in 0..MaxRequests, d \in 0..MaxDrivers, start \in SurgeStarts :
          pricing = [activeRequests |-> a, availableDrivers |-> d,
                     currentSurge |-> start, returned |-> <<>>]

\* One refresh: the zone's surge becomes the newSurge returned.
RefreshSurgeZone ==
    /\ Len(pricing.returned) < MaxRefreshes
    /\ LET r == updateSurgeZone(pricing.activeRequests, pricing.availableDrivers,
                                pricing.currentSurge)
       IN  pricing' = [pricing EXCEPT !.currentSurge = qHundredths(r.newSurge),
                                      !.returned = Append(@, r.newSurge)]
    /\ UNCHANGED <<dbVars, now, poolSeq, failures, cancel, matcher, updater, route, retry>>

NextSurge == RefreshSurgeZone

SpecSurge == InitSurge /\ [][NextSurge]_vars

(***************************************************************************)
(* retryWithBackoff (services/ride-pooling)                                *)
(***************************************************************************)
MaxRetryBudget == 4
RetryBases == {100, 7}

\* What one call of the operation may do: resolve with a value or reject
\* with an Error object.
OperationValues == {[value |-> "first"], [value |-> "second"]}
OperationErrors == {[message |-> "busy"], [message |-> "timeout"]}

\* new Error('Operation failed after retries')
OperationFailed == [message |-> "Operation failed after retries"]

\* The same delay growing by baseDelayMs per attempt.
backoffDelay_Linear(baseDelayMs, attempt) == baseDelayMs * (attempt + 1)

\* baseDelayMs * Math.pow(2, attempt)
backoffDelay(baseDelayMs, attempt) == baseDelayMs * 2 ^ attempt

\* lastError || new Error('Operation failed after retries')
thrownAfterRetries(lastError) ==
    IF lastError = Null THEN OperationFailed ELSE lastError

InitRetry ==
    /\ IdleStore
    /\ pools = <<>>
    /\ updater = Null
    /\ route = Null
    /\ pricing = Null
    /\ \E maxRetries \in 0..MaxRetryBudget, baseDelayMs \in RetryBases :
          retry = [pc |-> "loop", maxRetries |-> maxRetries, baseDelayMs |-> baseDelayMs,
                   attempt |-> 0, lastError |-> Null, outcomes |-> <<>>, sleeps |-> <<>>,
                   returned |-> Null, thrown |-> Null]

\* An iteration whose operation() resolves: its value is returned.
RetryOperationResolves ==
    /\ retry.pc = "loop"
    /\ retry.attempt < retry.maxRetries
    /\ \E v \in OperationValues :
          retry' = [retry EXCEPT !.outcomes = Append(@, v), !.returned = v,
                                 !.pc = "returned"]
    /\ UNCHANGED <<dbVars, now, poolSeq, failures, cancel, matcher, updater, route, pricing>>

\* An iteration whose operation() rejects: the error is kept, and the loop
\* sleeps unless this was the last iteration.
RetryOperationRejects ==
    /\ retry.pc = "loop"
    /\ retry.attempt < retry.maxRetries
    /\ \E e \in OperationErrors :
          retry' = [retry EXCEPT !.outcomes = Append(@, e), !.lastError = e,
                                 !.pc = IF retry.attempt < retry.maxRetries - 1
                                        THEN "sleep" ELSE "loop",
                                 !.attempt = IF retry.attempt < retry.maxRetries - 1
                                             THEN @ ELSE @ + 1]
    /\ UNCHANGED <<dbVars, now, poolSeq, failures, cancel, matcher, updater, route, pricing>>

\* The sleep between two iterations.
RetrySleep ==
    /\ retry.pc = "sleep"
    /\ retry' = [retry EXCEPT !.sleeps = Append(@, backoffDelay(retry.baseDelayMs,
                                                                retry.attempt)),
                              !.attempt = @ + 1, !.pc = "loop"]
    /\ UNCHANGED <<dbVars, now, poolSeq, failures, cancel, matcher, updater, route, pricing>>

\* The loop is over without a return: the function throws.
RetryThrows ==
    /\ retry.pc = "loop"
    /\ ~(retry.attempt < retry.maxRetries)
    /\ retry' = [retry EXCEPT !.thrown = thrownAfterRetries(retry.lastError),
                              !.pc = "thrown"]
    /\ UNCHANGED <<dbVars, now, poolSeq, failures, cancel, matcher, updater, route, pricing>>

NextRetry == RetryOperationResolves \/ RetryOperationRejects \/ RetrySleep \/ RetryThrows

SpecRetry == InitRetry /\ [][NextRetry]_vars

(***************************************************************************)
(* Properties of the lease                                                 *)
(***************************************************************************)
\* The pcs of a cancelRideRequest call between the successful acquisition of
\* withPoolLock and the end of its release.
BlockPcs ==
    {"remove_passenger", "update_pool", "delete_waypoints", "check_pool",
     "delete_pool", "release"}

inProtectedBlock(r) == cancel[r].pc \in BlockPcs

\* No row for the pool, or a row whose expires_at is in the past.
leaseFree(locks, poolId, t) ==
    \A l \in locksOfPool(locks, poolId) : l.expires_at < t

\* C1: an acquirePoolLock call whose statement executes returns a lock id
\* if and only if, at the moment of the call, the pool has no pool_locks row
\* or a row whose expires_at is in the past; when another holder's unexpired
\* row exists the call returns null and leaves the row unchanged.
C1_AcquireContract ==
    [][\A r \in CancelIds :
          (cancel[r].pc = "acquire" /\ cancel'[r].pc # "acquire" /\ failures' = failures)
          => LET poolId == cancel[r].passenger.pool_id
                 free == leaseFree(pool_locks, poolId, now)
             IN  /\ (cancel'[r].lockId # Null) <=> free
                 /\ (~free /\ \A l \in locksOfPool(pool_locks, poolId) : l.locked_by # r)
                      => /\ cancel'[r].lockId = Null
                         /\ pool_locks' = pool_locks]_vars

\* C2: at any moment at most one withPoolLock caller per pool is between its
\* successful acquisition and its release.
C2_MutualExclusion ==
    \A a \in CancelIds : \A b \in CancelIds :
        (a # b /\ inProtectedBlock(a) /\ inProtectedBlock(b))
        => cancel[a].passenger.pool_id # cancel[b].passenger.pool_id

\* Calls a and b cancel two different passengers that both were read as
\* members of the same pool.
samePoolCancels(a, b) ==
    /\ a # b
    /\ cancel[a].passenger # Null
    /\ cancel[b].passenger # Null
    /\ cancel[a].passengerId # cancel[b].passengerId
    /\ cancel[a].passenger.status = "matched"
    /\ cancel[b].passenger.status = "matched"
    /\ cancel[a].passenger.pool_id = cancel[b].passenger.pool_id

\* The pool row as the first matching cycle committed it.
committedPool == newPoolRow(matcher[1].results[1], matcher[1].snapshot)

\* C8: when two different passengers of one pool cancel concurrently, the
\* two lease-protected blocks never run at the same time, and once both calls
\* have returned success the pool is deleted if the two were its only
\* passengers, and otherwise has lost the seats and luggage of both and has
\* its version advanced by exactly 2.
C8_ConcurrentCancels ==
    \A a \in CancelIds : \A b \in CancelIds :
        samePoolCancels(a, b)
        => /\ ~(inProtectedBlock(a) /\ inProtectedBlock(b))
           /\ (/\ cancel[a].pc = "done" /\ cancel[a].result = [success |-> TRUE]
               /\ cancel[b].pc = "done" /\ cancel[b].result = [success |-> TRUE])
              => LET poolId == cancel[a].passenger.pool_id
                 IN  IF Len(matcher[1].results[1].passengers) = 2
                     THEN poolId \notin DOMAIN pools
                     ELSE /\ poolId \in DOMAIN pools
                          /\ pools[poolId].current_seats =
                                committedPool.current_seats
                                  - cancel[a].passenger.seats_required
                                  - cancel[b].passenger.seats_required
                          /\ pools[poolId].current_luggage =
                                committedPool.current_luggage
                                  - cancel[a].passenger.luggage_count
                                  - cancel[b].passenger.luggage_count
                          /\ pools[poolId].version = committedPool.version + 2

(***************************************************************************)
(* Properties of the version-checked update                                *)
(***************************************************************************)
updateReturned == updater.phase = "done"

\* The columns of an update set that the statement sets.
updatableFields(updates) == DOMAIN updates \ {"id", "version"}

versionMatched ==
    /\ updater.poolId \in DOMAIN updater.before
    /\ updater.before[updater.poolId].version = updater.expectedVersion

\* The row after the call carries the updatable columns of the update set,
\* version expectedVersion + 1, and the old value of every other column.
fieldsApplied ==
    /\ updater.poolId \in DOMAIN pools
    /\ \A c \in DOMAIN updater.before[updater.poolId] :
          pools[updater.poolId][c] =
             IF c \in updatableFields(updater.updates) THEN updater.updates[c]
             ELSE IF c = "version" THEN updater.expectedVersion + 1
             ELSE updater.before[updater.poolId][c]

updateSucceeded ==
    updater.result = [success |-> TRUE, newVersion |-> updater.expectedVersion + 1]

updateRefused == updater.result = [success |-> FALSE] /\ pools = updater.before

C4_VersionSteps ==
    [][\A poolId \in DOMAIN pools' :
          IF poolId \notin DOMAIN pools
          THEN pools'[poolId].version = 0
          ELSE pools'[poolId] # pools[poolId]
               => pools'[poolId].version = pools[poolId].version + 1]_vars

\* C4 witness: a pool committed by a matching cycle has been changed by a
\* lease-protected cancellation and by a version-checked update.
C4_Witness ==
    /\ updater.calls = 1
    /\ \E r \in CancelIds :
          /\ cancel[r].lockId # Null
          /\ cancel[r].pc = "done"
          /\ cancel[r].passenger.pool_id \in DOMAIN pools
          /\ pools[cancel[r].passenger.pool_id].version = 2

\* C5: after a matching cycle every pool the cycle persisted has
\* current_seats <= max_seats and current_luggage <= max_luggage.
C5_CapacityRespected ==
    \A m \in MatchIds :
        matcher[m].pc = "done"
        => \A k \in 1..Len(matcher[m].results) :
              LET poolId == matcher[m].results[k].pool_id
              IN  poolId \in DOMAIN pools
                  => /\ pools[poolId].current_seats <= pools[poolId].max_seats
                     /\ pools[poolId].current_luggage <= pools[poolId].max_luggage

\* C9: a cancelRideRequest call that loads no row, or a cancelled or
\* completed passenger, returns success = false in that step and leaves the
\* passengers, pools, waypoints and pool_locks tables as they were.
C9_CancelRefused ==
    [][\A r \in CancelIds :
          (/\ cancel[r].pc = "idle"
           /\ cancel'[r].pc # "idle"
           /\ \/ cancel'[r].passengerId \notin DOMAIN passengers
              \/ passengers[cancel'[r].passengerId].status \in {"cancelled", "completed"})
          => /\ cancel'[r].pc = "done"
             /\ cancel'[r].result = [success |-> FALSE]
             /\ UNCHANGED dbVars]_vars

\* C9 witness: a call has been refused for a passenger that another call
\* had cancelled before.
C9_Witness ==
    \E r \in CancelIds :
        /\ cancel[r].pc = "done"
        /\ cancel[r].result = [success |-> FALSE]
        /\ cancel[r].passenger # Null
        /\ cancel[r].passenger.status = "cancelled"
        /\ \E other \in CancelIds \ {r} :
              /\ cancel[other].pc = "done"
              /\ cancel[other].result = [success |-> TRUE]
              /\ cancel[other].passengerId = cancel[r].passengerId

\* C10: a passenger has a pool_id if and only if its status is matched,
\* in_transit or completed.
C10_PoolReference ==
    \A pid \in DOMAIN passengers :
        (passengers[pid].pool_id # NoPool)
        <=> passengers[pid].status \in {"matched", "in_transit", "completed"}

\* C11: every pool that exists has current_seats >= 0 and current_luggage >= 0.
C11_LoadNotNegative ==
    \A poolId \in DOMAIN pools :
        pools[poolId].current_seats >= 0 /\ pools[poolId].current_luggage >= 0

\* Some passenger with status matched references the pool.
hasMatchedPassenger(poolId) ==
    \E pid \in DOMAIN passengers :
        passengers[pid].status = "matched" /\ passengers[pid].pool_id = poolId

\* No matching cycle is committing, and every lease-protected cancellation on
\* the pool has returned, at least one of them with success.
cancellationsFinished(poolId) ==
    /\ \A m \in MatchIds : matcher[m].pc \in {"idle", "done"}
    /\ \E r \in CancelIds :
          /\ cancel[r].pc = "done"
          /\ cancel[r].lockId # Null
          /\ cancel[r].passenger.pool_id = poolId
    /\ \A r \in CancelIds :
          (cancel[r].passenger # Null /\ cancel[r].passenger.pool_id = poolId)
          => cancel[r].pc = "done"

\* C12: no step deletes a pool that a matched passenger still references,
\* and once the cancellations on a pool have returned, with no matching
\* cycle under way, and no matched passenger references it any more, the pool
\* is not in the store.
C12_DeletedWithLastPassenger ==
    [][/\ \A poolId \in DOMAIN pools \ DOMAIN pools' : ~hasMatchedPassenger(poolId)
       /\ \A poolId \in DOMAIN pools' :
             ~(cancellationsFinished(poolId) /\ ~hasMatchedPassenger(poolId))']_vars

\* Call r went into withPoolLock, and withPoolLock has finished.
withPoolLockFinished(r) ==
    cancel[r].pc = "done" /\ cancelDecision(cancel[r].passenger) = "acquire"

\* The pool's pool_locks row names the holder.
holdsLease(locks, poolId, holder) ==
    \E l \in locksOfPool(locks, poolId) : l.locked_by = holder

attemptsMade(r) ==
    IF cancel[r].lockId # Null \/ cancel[r].pc = "sleep"
    THEN cancel[r].attempt + 1 ELSE cancel[r].attempt

\* withPoolLock has returned null to call r: no attempt gave a lock id.
leaseUnavailable(r) ==
    withPoolLockFinished(r) /\ cancel[r].lockId = Null

\* C15: a withPoolLock call makes at most maxRetries = 3 acquisition attempts;
\* the k-th failed attempt is followed by a sleep of retryDelayMs * k, except
\* the last one, which is followed by none; when all attempts have failed the
\* call returns the failure result and the block has not run; the block runs
\* at most once, and only when an attempt has returned a lock id.
C15_BoundedRetries ==
    \A r \in CancelIds :
        cancelDecision(cancel[r].passenger) = "acquire"
        => /\ attemptsMade(r) <= DEFAULT_LOCK_OPTIONS.maxRetries
           /\ cancel[r].delays =
                 [k \in 1..Len(cancel[r].delays) |-> DEFAULT_LOCK_OPTIONS.retryDelayMs * k]
           /\ Len(cancel[r].delays) =
                 IF cancel[r].lockId # Null THEN attemptsMade(r) - 1
                 ELSE IF cancel[r].pc = "done" THEN attemptsMade(r) - 1
                 ELSE attemptsMade(r)
           /\ leaseUnavailable(r)
                => /\ attemptsMade(r) = DEFAULT_LOCK_OPTIONS.maxRetries
                   /\ cancel[r].result = [success |-> FALSE]
                   /\ cancel[r].runs = 0
           /\ cancel[r].runs <= 1
           /\ (cancel[r].runs = 1) <=> (cancel[r].lockId # Null)
           /\ (cancel[r].pc \in BlockPcs) => cancel[r].runs = 1

\* A call whose three attempts all failed, after sleeps of 50 and 100 ms.
C15_Witness ==
    \E r \in CancelIds :
        /\ leaseUnavailable(r)
        /\ cancel[r].delays = <<50, 100>>
        /\ cancel[r].runs = 0

\* C24: a step of a cancellation that holds no lock id before and after it
\* (loading the passenger, a failed acquisition attempt, the sleep between two
\* attempts) changes no row of passengers, pools, waypoints or pool_locks, and
\* the call whose attempts have all failed returns the failure result: the
\* passenger's status and pool_id, the pool's seats, luggage and version and
\* the passenger's waypoints are as the call found them.
C24_NoLeaseNoChange ==
    [][\A r \in CancelIds :
          (cancel'[r] # cancel[r] /\ cancel[r].lockId = Null /\ cancel'[r].lockId = Null)
          => /\ UNCHANGED <<passengers, pools, waypoints, pool_locks, pricing, retry>>
             /\ leaseUnavailable(r)' => cancel'[r].result = [success |-> FALSE]]_vars

\* One cancellation of a pooled passenger has given up without the lease; the
\* passenger is still matched to the pool, and another cancellation of the
\* same passenger, which loaded the same row, holds the lease and is about to
\* run the block.
C24_Witness ==
    \E a, b \in CancelIds :
        /\ leaseUnavailable(a)
        /\ cancel[a].result = [success |-> FALSE]
        /\ cancel[a].passenger.status = "matched"
        /\ passengers[cancel[a].passengerId] = cancel[a].passenger
        /\ cancel[b].passenger = cancel[a].passenger
        /\ cancel[b].pc = "remove_passenger"
        /\ cancel[b].lockId # Null

\* The status of the answer of POST /api/rides/:id/cancel to the outcome of
\* its cancelRideRequest call: 500 from the catch block when the call threw,
\* 400 when result.success is false, 200 otherwise.
cancelResponse(result) ==
    IF "thrown" \in DOMAIN result THEN 500
    ELSE IF ~result.success THEN 400
    ELSE 200

\* C25: the cancel endpoint answers 400 when the passenger is already
\* cancelled or completed, 409 when the pool lease could not be acquired
\* within the retries, and 200 only when the cancellation was applied.
C25_CancelStatus ==
    \A r \in CancelIds :
        cancel[r].pc = "done"
        => LET status == cancelResponse(cancel[r].result)
           IN  /\ (/\ cancel[r].passenger # Null
                   /\ cancel[r].passenger.status \in {"cancelled", "completed"})
                  => status = 400
               /\ leaseUnavailable(r) => status = 409
               /\ status = 200
                  => passengers[cancel[r].passengerId].status = "cancelled"

\* C14: a releasePoolLock call removes the pool's pool_locks row only if the
\* row's locked_by is the holder that releases, and then removes that row
\* alone; with another holder's row, or none, in the table the call changes
\* nothing; and when the holder's own row is there and the DELETE executes,
\* the row is removed.
C14_ReleaseOnlyOwnLease ==
    [][\A r \in CancelIds :
          (cancel[r].pc = "release" /\ cancel'[r].pc = "done")
          => LET poolId == cancel[r].passenger.pool_id
                 own == holdsLease(pool_locks, poolId, r)
             IN  /\ ~own => pool_locks' = pool_locks
                 /\ pool_locks' # pool_locks
                      => /\ own
                         /\ pool_locks' = pool_locks \ locksOfPool(pool_locks, poolId)
                 /\ (own /\ cancel'[r].released.returned)
                      => locksOfPool(pool_locks', poolId) = {}]_vars

\* Holder a took the lease at time 0; the lease expired and was cleaned up,
\* holder b took the lease, and a's release then removed nothing and left
\* b's row in the table.
C14_Witness ==
    \E a \in CancelIds : \E b \in CancelIds \ {a} :
        /\ withPoolLockFinished(a)
        /\ cancel[a].lockId = [pool |-> cancel[a].passenger.pool_id, at |-> 0]
        /\ cancel[a].released =
              [returned |-> TRUE, changes |-> 0,
               rows |-> {[pool_id |-> cancel[a].passenger.pool_id, locked_by |-> b,
                          expires_at |-> TickSeconds + DEFAULT_LOCK_OPTIONS.ttlSeconds,
                          lock_version |-> 1]}]
        /\ holdsLease(pool_locks, cancel[a].passenger.pool_id, b)

\* Writers a and b both have an update for a column other than id and
\* version, and their first reads gave the same version: neither had written
\* when the other read.
readSameVersion(a, b) ==
    /\ a # b
    /\ updatableFields(updater[a].updates) # {}
    /\ updatableFields(updater[b].updates) # {}
    /\ Len(updater[a].seen) >= 1
    /\ Len(updater[b].seen) >= 1
    /\ updater[a].seen[1] = updater[b].seen[1]

\* The value the pool row has in column c after a's update and then b's.
afterBoth(a, b, c) ==
    IF c \in updatableFields(updater[b].updates) THEN updater[b].updates[c]
    ELSE updater[a].updates[c]

liveLocks(locks, poolId, t) == {l \in locksOfPool(locks, poolId) : l.expires_at > t}

\* C17: in every state, whatever acquisitions, releases and cleanups of
\* expired rows have run, each pool has at most one pool_locks row whose
\* expires_at is in the future.
C17_OneLiveLeasePerPool ==
    \A poolId \in {l.pool_id : l \in pool_locks} :
        Cardinality(liveLocks(pool_locks, poolId, now)) <= 1

\* Holder a got its lock id at time 0 and is still in its block; its row
\* expired and was cleaned up, and the pool's one row is holder b's, not yet
\* expired.
C17_Witness ==
    \E a \in CancelIds : \E b \in CancelIds \ {a} :
        /\ inProtectedBlock(a)
        /\ cancel[a].lockId = [pool |-> cancel[a].passenger.pool_id, at |-> 0]
        /\ inProtectedBlock(b)
        /\ cancel[b].lockId = [pool |-> cancel[a].passenger.pool_id, at |-> TickSeconds]
        /\ holdsLease(pool_locks, cancel[a].passenger.pool_id, b)
        /\ Cardinality(liveLocks(pool_locks, cancel[a].passenger.pool_id, now)) = 1

(***************************************************************************)
(* Properties of the commits of a matching cycle                           *)
(***************************************************************************)
\* What the store holds of a proposal: its pool row, the rows of its
\* passengers and its waypoints.
proposalRows(result) ==
    [pool |-> IF result.pool_id \in DOMAIN pools THEN pools[result.pool_id] ELSE Null,
     passengers |-> [k \in 1..Len(result.passengers) |-> passengers[result.passengers[k]]],
     waypoints |-> {w \in waypoints : w.pool_id = result.pool_id}]

\* The pool row of the proposal is in the store.
poolWritten(result) == result.pool_id \in DOMAIN pools

\* Every passenger of the proposal is matched to its pool.
passengersWritten(result) ==
    \A k \in 1..Len(result.passengers) :
        /\ passengers[result.passengers[k]].status = "matched"
        /\ passengers[result.passengers[k]].pool_id = result.pool_id

\* Every waypoint of the proposal's route is in the store.
waypointsWritten(result) ==
    \A i \in 0..(Len(result.route.waypoints) - 1) : newWaypointRow(result, i) \in waypoints

\* Nothing of the proposal is in the store.
nothingWritten(result) ==
    /\ ~poolWritten(result)
    /\ \A k \in 1..Len(result.passengers) :
          passengers[result.passengers[k]].pool_id # result.pool_id
    /\ \A w \in waypoints : w.pool_id # result.pool_id

allWritten(result) ==
    poolWritten(result) /\ passengersWritten(result) /\ waypointsWritten(result)

\* C18: a statement that throws while a proposal is committed changes
\* nothing of what the store holds of the proposals committed before it
\* in the cycle, the cycle goes on with the next proposal, and when the cycle
\* has returned, every proposal none of whose statements threw is committed
\* in full and every proposal has been gone through.
C18_ProposalsIndependent ==
    [][\A m \in MatchIds :
          /\ (failures' # failures /\ matcher'[m] # matcher[m])
               => /\ \A j \in 1..(matcher[m].idx - 1) :
                        proposalRows(matcher[m].results[j])'
                          = proposalRows(matcher[m].results[j])
                  /\ matcher'[m].idx = matcher[m].idx + 1
                  /\ matcher'[m].pc =
                        IF matcher[m].idx < Len(matcher[m].results)
                        THEN "insert_pool" ELSE "done"
          /\ matcher'[m].pc = "done"
               => /\ matcher'[m].idx = Len(matcher'[m].results) + 1
                  /\ \A j \in 1..Len(matcher'[m].results) :
                        j \notin matcher'[m].failed
                        => allWritten(matcher[m].results[j])']_vars

\* A cycle of two proposals has returned: a statement of the first one threw,
\* and the second one is committed in full.
C18_Witness ==
    \E m \in MatchIds :
        /\ matcher[m].pc = "done"
        /\ Len(matcher[m].results) = 2
        /\ matcher[m].failed = {1}
        /\ allWritten(matcher[m].results[2])

\* C19: when a matching cycle has returned, each of its proposals is either
\* in the store in full (pool row, every passenger matched to the pool, every
\* waypoint) or not at all.
C19_ProposalAtomic ==
    \A m \in MatchIds :
        matcher[m].pc = "done"
        => \A j \in 1..Len(matcher[m].results) :
              allWritten(matcher[m].results[j]) \/ nothingWritten(matcher[m].results[j])

\* The passenger needs more seats or has more luggage than a van takes.
exceedsVan(p) ==
    \/ p.seats_required > getVehicleCapacity("van").maxSeats
    \/ p.luggage_count > getVehicleCapacity("van").maxLuggage

\* C20: a passenger with seats_required > 8 or luggage_count > 8 is in no
\* proposal that matchPassengersToPool returns, whatever other passengers are
\* pending with it, and is still pending, with no pool, after every
\* matching cycle.
C20_OversizedNeverMatched ==
    \A pid \in DOMAIN passengers :
        exceedsVan(passengers[pid])
        => /\ passengers[pid].status = "pending"
           /\ passengers[pid].pool_id = NoPool
           /\ \A m \in MatchIds : \A j \in 1..Len(matcher[m].results) :
                 \A k \in 1..Len(matcher[m].results[j].passengers) :
                    matcher[m].results[j].passengers[k] # pid

\* The second cycle has returned: a party of nine was pending in both
\* cycles and is pending still, while a ride from another pickup area was
\* committed by the first cycle.
C20_Witness ==
    \E m \in MatchIds : \E pid \in DOMAIN passengers : \E other \in DOMAIN passengers :
        /\ matcher[m].pc = "done"
        /\ matcher[m].round = MaxMatchRounds
        /\ passengers[pid].seats_required > getVehicleCapacity("van").maxSeats
        /\ \E k \in 1..Len(matcher[m].snapshot) : matcher[m].snapshot[k].id = pid
        /\ passengers[pid].status = "pending"
        /\ passengers[other].status = "matched"

\* The trips of passengers a and b are within minDirectionSimilarity degrees
\* of each other.
sameDirection(a, b) ==
    isSimilarDirection(a.pickup, a.dropoff, b.pickup, b.dropoff,
                       DEFAULT_CONFIG.minDirectionSimilarity)

\* The ids a proposal names.
proposalIds(result) == {result.passengers[k] : k \in 1..Len(result.passengers)}

\* C21: no proposal of a matching cycle names two passengers whose trips differ
\* in direction by more than 45 degrees; and when the pending passengers are
\* two such passengers in one cluster, each able to ride alone, the matcher
\* returns two proposals of one passenger each.
C21_SameDirectionOnly ==
    \A m \in MatchIds :
        /\ \A j \in 1..Len(matcher[m].results) :
              \A a \in proposalIds(matcher[m].results[j]) :
              \A b \in proposalIds(matcher[m].results[j]) :
                 sameDirection(passengers[a], passengers[b])
        /\ (/\ matcher[m].pc # "idle"
            /\ Len(matcher[m].snapshot) = 2
            /\ Len(buildSpatialClusters(matcher[m].snapshot,
                                         DEFAULT_CONFIG.maxSearchRadius)) = 1
            /\ ~sameDirection(matcher[m].snapshot[1], matcher[m].snapshot[2])
            /\ tryFormPool(<<matcher[m].snapshot[1]>>) # Null
            /\ tryFormPool(<<matcher[m].snapshot[2]>>) # Null)
           => /\ Len(matcher[m].results) = 2
              /\ \A j \in 1..2 : Len(matcher[m].results[j].passengers) = 1

\* The passenger can ride alone: a vehicle fits and the planner finds the
\* route pickup, dropoff.
feasibleAlone(p) == tryFormPool(<<p>>) # Null

\* C22: in every matching cycle, each pending passenger that is feasible on
\* its own is named by some proposal of the cycle, also when the group the
\* matcher first put it in was infeasible.
C22_SmallerSubsetTried ==
    \A m \in MatchIds :
        matcher[m].pc # "idle"
        => \A k \in 1..Len(matcher[m].snapshot) :
              feasibleAlone(matcher[m].snapshot[k])
              => \E j \in 1..Len(matcher[m].results) :
                    matcher[m].snapshot[k].id \in proposalIds(matcher[m].results[j])

\* The vehicle classes from the smallest to the largest.
VehicleClasses == <<"sedan", "suv", "van">>

\* The smallest class whose capacity covers the seats and the luggage.
smallestClass(seats, luggage) ==
    LET covers(i) == /\ seats <= getVehicleCapacity(VehicleClasses[i]).maxSeats
                     /\ luggage <= getVehicleCapacity(VehicleClasses[i]).maxLuggage
    IN  VehicleClasses[CHOOSE i \in 1..Len(VehicleClasses) :
                          covers(i) /\ \A h \in 1..(i - 1) : ~covers(h)]

\* The rows of the cycle's snapshot that the proposal names.
proposalPassengers(mm, result) ==
    SelectSeq(mm.snapshot, LAMBDA p : p.id \in proposalIds(result))

\* C23: the pool row persisted for a proposal carries the smallest vehicle
\* class, of sedan (4, 3), suv (6, 5) and van (8, 8), whose capacity covers the
\* total seats_required and the total luggage_count of the proposal's
\* passengers, which is the class the matcher selected, with that class's
\* max_seats and max_luggage, and its current_seats is the total seats_required.
C23_PersistedVehicle ==
    \A m \in MatchIds : \A j \in 1..Len(matcher[m].results) :
        LET result == matcher[m].results[j]
            ps == proposalPassengers(matcher[m], result)
            seats == SumField(ps, "seats_required")
            luggage == SumField(ps, "luggage_count")
        IN  (j < matcher[m].idx /\ poolWritten(result))
            => /\ matcherDetermineVehicleType(seats, luggage) = smallestClass(seats, luggage)
               /\ pools[result.pool_id].vehicle_type = smallestClass(seats, luggage)
               /\ pools[result.pool_id].max_seats
                     = getVehicleCapacity(smallestClass(seats, luggage)).maxSeats
               /\ pools[result.pool_id].max_luggage
                     = getVehicleCapacity(smallestClass(seats, luggage)).maxLuggage
               /\ pools[result.pool_id].current_seats = seats

(***************************************************************************)
(* Properties of the route planner                                         *)
(***************************************************************************)
\* Position of a passenger's waypoint of the given type in a waypoint sequence.
positionOf(wps, pid, type) ==
    CHOOSE k \in 1..Len(wps) : wps[k].passenger_id = pid /\ wps[k].type = type

\* Arrival time at position k of a waypoint sequence, from its first waypoint.
RECURSIVE arrivalTime(_, _)
arrivalTime(wps, k) ==
    IF k <= 1 THEN 0
    ELSE arrivalTime(wps, k - 1)
         + estimateTravelTime(haversineDistance(wps[k - 1].loc, wps[k].loc))

routeReturned == route.phase = "done" /\ route.result # Null

routeIds == {route.passengers[k].id : k \in 1..Len(route.passengers)}

pickupBeforeDropoff(wps, pid) ==
    positionOf(wps, pid, "pickup") < positionOf(wps, pid, "dropoff")

\* C6: in every route optimizeRoute returns, each passenger's pickup is at a
\* smaller position than that passenger's dropoff.
C6_PickupBeforeDropoff ==
    routeReturned =>
        \A pid \in routeIds : pickupBeforeDropoff(route.result.waypoints, pid)

orderings(ps) ==
    {[k \in 1..Len(ps) |-> ps[f[k]]] :
        f \in {g \in [1..Len(ps) -> 1..Len(ps)] : \A a, b \in 1..Len(ps) : g[a] = g[b] => a = b}}

\* What optimizeRoute returns to its caller: null, or the ordered waypoints.
waypointsReturned(result) == IF result = Null THEN Null ELSE [waypoints |-> result.waypoints]

\* C30: for every ordering of the passenger list, with the same start
\* location and the same constraints, optimizeRoute returns what it returned
\* for the list as given: null in both cases, or the same sequence of
\* waypoints.
C30_OrderIndependent ==
    route.phase = "done"
    => \A ps \in orderings(route.passengers) :
          waypointsReturned(optimizeRoute(scaledPassengers(ps),
                                          calculateCentroid(route.passengers),
                                          route.constraints))
          = waypointsReturned(route.result)

\* No matching cycle is in the middle of a commit and no cancellation is
\* between its first and its last statement.
storeAtRest ==
    /\ \A m \in MatchIds : matcher[m].pc \in {"idle", "done"}
    /\ \A r \in CancelIds : cancel[r].pc \in {"idle", "done"}

\* The stored waypoints of the pool for the passenger, of one type.
waypointsOf(poolId, pid, type) ==
    {w \in waypoints : w.pool_id = poolId /\ w.passenger_id = pid /\ w.waypoint_type = type}

\* C28: whenever no commit and no cancellation is under way, every passenger
\* matched to a pool has exactly one pickup and exactly one dropoff among the
\* pool's stored waypoints, the pickup at the smaller sequence position, and
\* every stored waypoint belongs to a passenger currently matched to its pool.
C28_WaypointsOfCurrentPassengers ==
    storeAtRest
    => /\ \A pid \in DOMAIN passengers :
            (passengers[pid].status = "matched" /\ passengers[pid].pool_id # NoPool)
            => LET pickups == waypointsOf(passengers[pid].pool_id, pid, "pickup")
                   dropoffs == waypointsOf(passengers[pid].pool_id, pid, "dropoff")
               IN  /\ Cardinality(pickups) = 1
                   /\ Cardinality(dropoffs) = 1
                   /\ \A a \in pickups : \A b \in dropoffs :
                         a.sequence_order < b.sequence_order
       /\ \A w \in waypoints :
            /\ w.passenger_id \in DOMAIN passengers
            /\ passengers[w.passenger_id].status = "matched"
            /\ passengers[w.passenger_id].pool_id = w.pool_id

(***************************************************************************)
(* Properties of pricing                                                   *)
(***************************************************************************)
\* C26: the fields calculateDynamicPrice returns, each a number of
\* hundredths, satisfy 0.5 x basePrice x surgeMultiplier <= finalPrice <=
\* basePrice x surgeMultiplier, and poolDiscount is between 0.5 and 1.0, and
\* 1.0 for a pool size of at most 1.
C26_PriceBracket ==
    pricing.result # Null
    => LET r == pricing.result
           base == qHundredths(r.basePrice)
           surge == qHundredths(r.surgeMultiplier)
           final == qHundredths(r.finalPrice)
       IN  /\ qLessEq(qMul(<<1, 2>>, qMul(base, surge)), final)
           /\ qLessEq(final, qMul(base, surge))
           /\ 50 <= r.poolDiscount /\ r.poolDiscount <= 100
           /\ pricing.factors.poolSize <= 1 => r.poolDiscount = 100

\* The raw target of the zone: the surge of its demand level before smoothing.
surgeTarget == rawSurge(demandSupplyRatio(pricing.activeRequests, pricing.availableDrivers))

inSurgeRange(x) ==
    qLessEq(PRICING_CONFIG.SURGE.MIN, x) /\ qLessEq(x, PRICING_CONFIG.SURGE.MAX)

\* A surge updateSurgeZone can return: two decimals, inside the range.
returnableSurge(x) == 100 % qReduce(x[1], x[2])[2] = 0 /\ inSurgeRange(x)

\* The refresh neither lowers the surge nor takes it above the target or the cap.
towardsTarget(before, after) ==
    /\ qLessEq(before, after)
    /\ qLessEq(after, qMin(surgeTarget, PRICING_CONFIG.SURGE.MAX))

rejectedAmong(n) == {k \in 1..n : retry.outcomes[k] \in OperationErrors}

\* C29: retryWithBackoff calls the operation at most maxRetries times; it
\* returns the value of the first call that resolves, which is the last call
\* it makes; the sleep after the k-th rejected call, counted from 0, is
\* baseDelayMs * 2^k, there is one sleep between two consecutive calls and none
\* after the last; it throws only after maxRetries rejected calls, and then,
\* when there was a call at all, the error of the last one.
C29_RetryWithBackoff ==
    LET calls == Len(retry.outcomes)
    IN  /\ calls <= retry.maxRetries
        /\ rejectedAmong(calls - 1) = 1..(calls - 1)
        /\ retry.sleeps =
              [k \in 1..Len(retry.sleeps) |-> retry.baseDelayMs * 2 ^ (k - 1)]
        /\ Len(retry.sleeps) =
              IF calls = 0 THEN 0
              ELSE IF retry.pc = "loop" /\ calls < retry.maxRetries THEN calls
              ELSE calls - 1
        /\ retry.pc = "returned"
              => /\ retry.outcomes[calls] \in OperationValues
                 /\ retry.returned = retry.outcomes[calls]
                 /\ retry.thrown = Null
        /\ retry.pc = "thrown"
              => /\ calls = retry.maxRetries
                 /\ rejectedAmong(calls) = 1..calls
                 /\ retry.returned = Null
                 /\ calls > 0 => retry.thrown = retry.outcomes[calls]
                 /\ calls = 0 => retry.thrown = OperationFailed
        /\ retry.pc \in {"loop", "sleep"}
              => /\ rejectedAmong(calls) = 1..calls
                 /\ retry.returned = Null /\ retry.thrown = Null

\* Four calls rejected, three sleeps in between, and the error of the fourth
\* call, which differs from the third, is thrown.
C29_Witness ==
    /\ retry.pc = "thrown"
    /\ Len(retry.outcomes) = 4
    /\ Len(retry.sleeps) = 3
    /\ retry.outcomes[3] # retry.outcomes[4]
    /\ retry.thrown = retry.outcomes[4]

(***************************************************************************)
(* Properties of calls that overlap                                        *)
(***************************************************************************)
\* C31: no step takes a passenger out of cancelled, a passenger becomes
\* matched only from pending, and a cancelled passenger that had no pool
\* reference gets none.
C31_CancelledIsTerminal ==
    [][\A pid \in DOMAIN passengers :
          /\ passengers[pid].status = "cancelled"
             => /\ passengers'[pid].status = "cancelled"
                /\ passengers[pid].pool_id = NoPool => passengers'[pid].pool_id = NoPool
          /\ (passengers'[pid].status = "matched" /\ passengers[pid].status # "matched")
             => passengers[pid].status = "pending"]_vars


\* Calls a and b are two cancellations of one passenger that both read it as
\* matched to a pool.
samePassengerCancels(a, b) ==
    /\ a # b
    /\ cancel[a].passenger # Null
    /\ cancel[b].passenger # Null
    /\ cancel[a].passengerId = cancel[b].passengerId
    /\ cancelDecision(cancel[a].passenger) = "acquire"
    /\ cancelDecision(cancel[b].passenger) = "acquire"

cancelSucceeded(r) ==
    cancel[r].pc = "done" /\ cancel[r].result = [success |-> TRUE]

\* C32: of two cancellations of the same matched passenger at most one
\* returns success, and between them they take the passenger's seats and
\* luggage off the pool at most once and raise its version by at most 1.
C32_CancelledOnce ==
    \A a \in CancelIds : \A b \in CancelIds :
        samePassengerCancels(a, b)
        => LET p == cancel[a].passenger
           IN  /\ ~(cancelSucceeded(a) /\ cancelSucceeded(b))
               /\ p.pool_id \in DOMAIN pools
                  => /\ pools[p.pool_id].version <= committedPool.version + 1
                     /\ pools[p.pool_id].current_seats
                           >= committedPool.current_seats - p.seats_required
                     /\ pools[p.pool_id].current_luggage
                           >= committedPool.current_luggage - p.luggage_count


\* The stored pools whose route holds a waypoint of the passenger.
poolsRouting(pid) ==
    {poolId \in DOMAIN pools : \E w \in waypoints : w.pool_id = poolId /\ w.passenger_id = pid}

\* C33: with two matching cycles running over the same pending passengers,
\* no passenger has waypoints in the routes of two stored pools.
C33_CountedInOnePool ==
    \A pid \in DOMAIN passengers : Cardinality(poolsRouting(pid)) <= 1


\* The passengers whose pool_id references the pool.
passengersOf(poolId) == {pid \in DOMAIN passengers : passengers[pid].pool_id = poolId}

\* The sum of a field over the passengers of a set of ids.
RECURSIVE sumOver(_, _)
sumOver(ids, f) ==
    IF ids = {} THEN 0
    ELSE LET pid == CHOOSE x \in ids : TRUE
         IN  passengers[pid][f] + sumOver(ids \ {pid}, f)

\* C34: whenever no commit and no cancellation is under way and no statement
\* has failed, each stored pool's current_seats is the sum of seats_required,
\* and its current_luggage the sum of luggage_count, of the passengers whose
\* pool_id references it.
C34_LoadIsSumOfPassengers ==
    (storeAtRest /\ failures = 0)
    => \A poolId \in DOMAIN pools :
          /\ pools[poolId].current_seats = sumOver(passengersOf(poolId), "seats_required")
          /\ pools[poolId].current_luggage = sumOver(passengersOf(poolId), "luggage_count")


(***************************************************************************)
(* Properties of the returned route                                        *)
(***************************************************************************)
\* What is on board after the k-th waypoint of the sequence: the field of the
\* passengers' constraints added at a pickup and taken off at a dropoff.
RECURSIVE onBoard(_, _, _)
onBoard(wps, k, f) ==
    IF k = 0 THEN 0
    ELSE onBoard(wps, k - 1, f)
         + (IF wps[k].type = "pickup" THEN 1 ELSE -1)
           * route.constraints.passengerConstraints[wps[k].passenger_id][f]

\* C35: in every route optimizeRoute returns, the seats and the luggage on
\* board after each waypoint are within constraints.maxSeats and
\* constraints.maxLuggage.
C35_CapacityAlongRoute ==
    routeReturned
    => \A k \in 1..Len(route.result.waypoints) :
          /\ onBoard(route.result.waypoints, k, "seatsRequired") <= route.constraints.maxSeats
          /\ onBoard(route.result.waypoints, k, "luggageCount") <= route.constraints.maxLuggage


\* The length of a waypoint sequence as the greedy construction measures it:
\* the leg from the start location to the first waypoint, then the legs
\* between consecutive waypoints.
lengthFromStart(wps) ==
    haversineDistance(calculateCentroid(route.passengers), wps[1].loc) + legsFrom(wps, 2)

\* C36: the route optimizeRoute returns is never longer, start leg included,
\* than the greedy route, and its total_distance is the length of its waypoint
\* sequence measured with the start leg as for the greedy route.
C36_NeverLongerThanGreedy ==
    routeReturned
    => /\ lengthFromStart(route.result.waypoints) <= lengthFromStart(route.greedy.waypoints)
       /\ route.result.total_distance = lengthFromStart(route.result.waypoints)


(***************************************************************************)
(* Properties of the proposals of matchPassengersToPool                    *)
(***************************************************************************)
planReturned == matcher.pc = "done"

\* The passenger rows of a proposal, in the order tryFormPool received them.
candidatesOf(result) ==
    [k \in 1..Len(result.passengers) |->
        CHOOSE p \in {matcher.passengers[m] : m \in 1..Len(matcher.passengers)} :
            p.id = result.passengers[k]]

RECURSIVE loadOf(_, _, _)
loadOf(S, constraints, f) ==
    IF S = {} THEN 0
    ELSE LET pid == CHOOSE x \in S : TRUE
         IN  constraints.passengerConstraints[pid][f] + loadOf(S \ {pid}, constraints, f)

\* Whether, in the greedy construction for the candidates, every choice among
\* valid waypoints at the same smallest distance fell on a waypoint whose
\* passenger asked no later than the others'.
tiesGoToEarlierRequest(cands) ==
    LET constraints == poolConstraints(cands,
                          matcherDetermineVehicleType(SumField(cands, "seats_required"),
                                                      SumField(cands, "luggage_count")))
        all == buildWaypoints(scaledPassengers(cands))
        g == greedyRouteConstruction(all, calculateCentroid(cands), constraints).waypoints
        requestedAt(pid) == (CHOOSE k \in 1..Len(cands) : cands[k].id = pid)
        at(pid) == cands[requestedAt(pid)].requested_at
    IN  \A k \in 1..Len(g) :
          LET visited == {g[i] : i \in 1..(k - 1)}
              pickedUp == {w.passenger_id : w \in {v \in visited : v.type = "pickup"}}
                            \ {w.passenger_id : w \in {v \in visited : v.type = "dropoff"}}
              currentLocation == IF k = 1 THEN calculateCentroid(cands) ELSE g[k - 1].loc
          IN  \A m \in 1..Len(all) :
                 ( /\ all[m] \notin visited
                   /\ isValidNextWaypoint(all[m], pickedUp,
                                          loadOf(pickedUp, constraints, "seatsRequired"),
                                          loadOf(pickedUp, constraints, "luggageCount"),
                                          constraints)
                   /\ haversineDistance(currentLocation, all[m].loc)
                        = haversineDistance(currentLocation, g[k].loc) )
                 => at(g[k].passenger_id) <= at(all[m].passenger_id)

\* C37: for every pool the matcher forms, on the whole-cluster path and on the
\* greedy-growth path, a tie in distance during the greedy construction goes
\* to the waypoint of the passenger with the earlier request timestamp.
C37_TiesToEarlierRequest ==
    planReturned
    => \A r \in 1..Len(matcher.results) :
          tiesGoToEarlierRequest(candidatesOf(matcher.results[r]))


(***************************************************************************)
(* The effect of one cancellation                                          *)
(***************************************************************************)
\* Call r is the only cancellation so far, was for a pooled passenger and has
\* returned success.
cancelledAlone(r) ==
    /\ cancelSucceeded(r)
    /\ cancelDecision(cancel[r].passenger) = "acquire"
    /\ \A o \in CancelIds \ {r} : cancel[o].pc = "idle"

\* The rows the commit of the pool left in the store.
committedPassenger(pid) ==
    [matcher[1].snapshot[pid] EXCEPT !.status = "matched",
                                     !.pool_id = matcher[1].results[1].pool_id]

committedWaypoints ==
    {newWaypointRow(matcher[1].results[1], i) :
        i \in 0..(Len(matcher[1].results[1].route.waypoints) - 1)}

\* C38: after a successful cancellation of a pooled passenger the passenger is
\* cancelled with no pool reference, the pool (while stored) has lost its
\* seats and luggage and has its version raised by 1, the passenger's
\* waypoints are gone, and the rows and waypoints of every other passenger are
\* as they were.
C38_CancelFrame ==
    \A r \in CancelIds :
        cancelledAlone(r)
        => LET p == cancel[r].passenger
           IN  /\ passengers[p.id] = [p EXCEPT !.status = "cancelled", !.pool_id = NoPool]
               /\ p.pool_id \in DOMAIN pools
                  => pools[p.pool_id] =
                        [committedPool EXCEPT
                            !.current_seats = @ - p.seats_required,
                            !.current_luggage = @ - p.luggage_count,
                            !.version = @ + 1]
               /\ \A q \in CreatedIds \ {p.id} : passengers[q] = committedPassenger(q)
               /\ waypoints = {w \in committedWaypoints : w.passenger_id # p.id}


\* The row of the passenger among those handed to the matcher.
planRow(pid) ==
    CHOOSE p \in {matcher.passengers[m] : m \in 1..Len(matcher.passengers)} : p.id = pid

\* The (proposal, position) pairs of the proposals gathered so far.
proposedSlots ==
    UNION {{<<r, k>> : k \in 1..Len(matcher.results[r].passengers)} :
              r \in 1..Len(matcher.results)}

\* C39: the proposals of matchPassengersToPool contain only pending
\* passengers, no passenger id stands in two proposals or twice in one, every
\* proposal has between 1 and maxPoolSize passengers, and its route has
\* exactly two waypoints for each of them, a pickup and a dropoff.
C39_ProposalsWellFormed ==
    /\ \A s \in proposedSlots :
          planRow(matcher.results[s[1]].passengers[s[2]]).status = "pending"
    /\ \A s \in proposedSlots : \A t \in proposedSlots :
          matcher.results[s[1]].passengers[s[2]] = matcher.results[t[1]].passengers[t[2]]
          => s = t
    /\ \A r \in 1..Len(matcher.results) :
          LET result == matcher.results[r]
              wps == result.route.waypoints
          IN  /\ Len(result.passengers) >= 1
              /\ Len(result.passengers) <= matcher.config.maxPoolSize
              /\ Len(wps) = 2 * Len(result.passengers)
              /\ \A k \in 1..Len(result.passengers) :
                    \A type \in {"pickup", "dropoff"} :
                       Cardinality({i \in 1..Len(wps) :
                                       /\ wps[i].passenger_id = result.passengers[k]
                                       /\ wps[i].type = type}) = 1

\* C39 witness: the call has returned, a passenger that was not pending was
\* among its input, and one proposal was grown to maxPoolSize passengers out of
\* a larger cluster, the rest of which went into another proposal.
C39_Witness ==
    /\ planReturned
    /\ \E m \in 1..Len(matcher.passengers) : matcher.passengers[m].status # "pending"
    /\ \E r \in 1..Len(matcher.results) : \E q \in 1..Len(matcher.results) :
          /\ q # r
          /\ Len(matcher.results[r].passengers) = matcher.config.maxPoolSize
          /\ haversineDistance(planRow(matcher.results[q].passengers[1]).pickup,
                               planRow(matcher.results[r].passengers[1]).pickup)
                <= matcher.config.maxSearchRadius


(***************************************************************************)
(* Termination of the matcher and of the route planner                     *)
(***************************************************************************)
\* The lengths of 'remaining' at the head of each iteration of the while-loop
\* of formPoolsFromCluster, the final 0 included.
RECURSIVE remainingLengths(_, _)
remainingLengths(remaining, config) ==
    IF Len(remaining) = 0 THEN <<0>>
    ELSE <<Len(remaining)>>
         \o remainingLengths(growPool(<<Head(remaining)>>, Tail(remaining),
                                      Len(remaining) - 1, config).remaining,
                             config)

\* The planner run for the candidates: the greedy construction adds one
\* waypoint per iteration until none is left, 2-opt leaves its loop with at
\* most MAX_ITERATIONS passes counted and with a route that passes the detour
\* check and is not longer, on 2-opt's measure, than the one it started from.
plannerTerminates(cands) ==
    LET constraints == poolConstraints(cands,
                          matcherDetermineVehicleType(SumField(cands, "seats_required"),
                                                      SumField(cands, "luggage_count")))
        all == buildWaypoints(scaledPassengers(cands))
        g == greedyRouteConstruction(all, calculateCentroid(cands), constraints)
        best == twoOptOptimization(g, constraints)
    IN  /\ g # Null
        /\ Len(g.waypoints) = Len(all)
        /\ twoOptIterations(g, 0, constraints) <= MAX_ITERATIONS
        /\ best.total_distance <= g.total_distance
        /\ ~detourViolated(calculateDetours(best.waypoints, constraints), constraints)

measuresDecrease ==
    /\ matcher.pc = "clusters"
       => \A c \in 1..Len(matcher.clusters) :
             LET lens == remainingLengths(matcher.clusters[c], matcher.config)
             IN  \A i \in 1..(Len(lens) - 1) : lens[i + 1] < lens[i]
    /\ planReturned
       => \A r \in 1..Len(matcher.results) :
             plannerTerminates(candidatesOf(matcher.results[r]))

\* With the budget found exceeded when the next cluster is due, the call
\* returns what it has gathered and starts no further cluster.
stopsAtBudget ==
    ( /\ matcher.pc = "clusters"
      /\ Len(matcher.clusters) > 0
      /\ now - matcher.startTime > matcher.config.timeoutMs
      /\ matcher' # matcher )
    => /\ matcher'.pc = "done"
       /\ matcher'.results = matcher.results
       /\ matcher'.clusters = matcher.clusters

\* C40: every call of matchPassengersToPool returns; the greedy construction
\* visits one waypoint per iteration, the greedy-growth loop shortens
\* 'remaining' in every iteration, 2-opt makes at most MAX_ITERATIONS passes and
\* returns its best route, and a call that finds its time budget exceeded at a
\* cluster boundary returns the proposals gathered so far without starting
\* another cluster.
C40_Terminates ==
    /\ (matcher.pc = "input") ~> planReturned
    /\ []measuresDecrease
    /\ [][stopsAtBudget]_vars

\* C40 witness: the call has returned with a cluster left unprocessed because
\* the budget was exceeded, after a cluster larger than maxPoolSize had been
\* turned into two proposals by the greedy-growth loop.
C40_Witness ==
    /\ planReturned
    /\ Len(matcher.clusters) > 0
    /\ now - matcher.startTime > matcher.config.timeoutMs
    /\ Len(matcher.results) >= 2
    /\ Len(matcher.results[1].passengers) = matcher.config.maxPoolSize

====
